---------------------------- MODULE Spec2Model ----------------------------
(***************************************************************************)
(* Model of the "28" card-game server (backend/app): the game registry,    *)
(* the per-game websocket handler with its bot auto-advance, the bidding   *)
(* rule engine, the opening-bid planner and the play engine.               *)
(*                                                                         *)
(* Optional values (Python None) are sequences of length at most one:      *)
(* None is <<>> and a present value x is <<x>>.                            *)
(***************************************************************************)
EXTENDS Integers, Sequences, FiniteSets, TLC

VARIABLES
    games,       \* game_manager._games: the set of registered game ids
    state,       \* the GameState record of the one game of the model
    pc,          \* position of the connection's handler (ws_game)
    frames,      \* frames sent in answer to the last connect/message
    deviations,  \* number of non-default inputs taken so far (exploration bound)
    settings,    \* app.settings.settings
    bot_sem,     \* app.state.bot_sem: the permits the semaphore has left
    bot_loops    \* per connection: where its advance_bots_until_human stands

vars == <<games, state, pc, frames, deviations, settings, bot_sem, bot_loops>>

(***************************************************************************)
(* Bounds of the exploration.                                              *)
(***************************************************************************)
\* How many times a run may leave the default line of play (default: pass
\* when allowed, lowest legal bid otherwise, first card, no reveal).
MaxDeviations == 1

\* Connections (each on a game of its own) whose bot loops share the process.
MaxConns == 3

\* Bot decisions one run of a connection's bot loop makes at most.
MaxDecisions == 2

(***************************************************************************)
(* Generic helpers on sequences.                                           *)
(***************************************************************************)
None == <<>>
Some(x) == <<x>>
IsNone(o) == o = <<>>
Val(o) == o[1]

SeqToSet(q) == {q[i] : i \in 1..Len(q)}

\* list.index(x): position of the first occurrence (1-based), 0 when absent
IndexOf(q, x) ==
    IF \E i \in 1..Len(q) : q[i] = x
    THEN CHOOSE i \in 1..Len(q) : q[i] = x /\ \A j \in 1..(i - 1) : q[j] # x
    ELSE 0

\* list.pop(i) result list (1-based i)
RemoveAt(q, i) == [j \in 1..(Len(q) - 1) |-> IF j < i THEN q[j] ELSE q[j + 1]]

RECURSIVE SumSeq(_)
SumSeq(q) == IF q = <<>> THEN 0 ELSE Head(q) + SumSeq(Tail(q))

RECURSIVE Flatten(_)
Flatten(qq) == IF qq = <<>> THEN <<>> ELSE Head(qq) \o Flatten(Tail(qq))

MaxOf(S) == CHOOSE m \in S : \A x \in S : x <= m

MinOf(S) == CHOOSE m \in S : \A x \in S : m <= x

(***************************************************************************)
(* cards_adapter.py: card values and wire ids. A wire id "Suit_Rank" is    *)
(* modelled by its split at the first "_": the pair <<suit, rank>>; an id  *)
(* without separator is a one-element sequence.                            *)
(***************************************************************************)
SUITS == <<"Hearts", "Clubs", "Diamonds", "Spades">>
RANKS == <<"Seven", "Eight", "Queen", "King", "Ten", "Ace", "Nine", "Jack">>

points_and_order(rank) ==
    [points |-> IF rank \in {"Ten", "Ace"} THEN 1
                ELSE IF rank = "Nine" THEN 2
                ELSE IF rank = "Jack" THEN 3
                ELSE 0,
     order |-> IndexOf(RANKS, rank) - 1]

Cards(suit, rank) ==
    [suit |-> suit, rank |-> rank,
     points |-> points_and_order(rank).points,
     order |-> points_and_order(rank).order]

to_card_id(card) == <<card.suit, card.rank>>

\* from_card_id raises ValueError exactly when the id is not valid
ValidCardId(card_id) ==
    /\ Len(card_id) = 2
    /\ card_id[1] \in SeqToSet(SUITS)
    /\ card_id[2] \in SeqToSet(RANKS)

from_card_id(card_id) == Cards(card_id[1], card_id[2])

\* legacy Cards.identity(): a label that determines suit and rank
identity(card) == <<card.rank, "of", card.suit>>

\* legacy Cards.packOf28(): the 32 cards, 8 ranks of each of the 4 suits
packOf28 ==
    [i \in 1..32 |-> Cards(SUITS[((i - 1) \div 8) + 1], RANKS[((i - 1) % 8) + 1])]

(***************************************************************************)
(* bidding_engine.py                                                       *)
(***************************************************************************)
BidTurnRules(seat, min_excl, max_bid, can_pass, can_redeal) ==
    [seat_index |-> seat, min_bid_exclusive |-> min_excl,
     max_bid_inclusive |-> max_bid, can_pass |-> can_pass,
     can_redeal |-> can_redeal]

_is_zero_point_first4(points_sum) == points_sum = 0

Max2(a, b) == IF a >= b THEN a ELSE b

\* turn rules that let the first bidder pass
compute_r1_turn_rules_FirstMayPass(bidding_order, step, bids_by_pos, passes_by_pos, final_pos, first4_points_by_seat) ==
    BidTurnRules(bidding_order[step],
                 IF step = 0 THEN 13
                 ELSE IF step = 1 THEN bids_by_pos[0]
                 ELSE IF step = 2
                 THEN IF ~passes_by_pos[1] THEN bids_by_pos[1] ELSE Max2(bids_by_pos[0], 19)
                 ELSE IF final_pos = 1 THEN Max2(bids_by_pos[final_pos], 19)
                 ELSE bids_by_pos[final_pos],
                 23, TRUE,
                 step = 0 /\ _is_zero_point_first4(first4_points_by_seat[bidding_order[step]]))

compute_r1_turn_rules(bidding_order, step, bids_by_pos, passes_by_pos, final_pos, first4_points_by_seat) ==
    LET seat == bidding_order[step]
        max_bid == 23
    IN  IF step = 0
        THEN BidTurnRules(seat, 13, max_bid, FALSE,
                          _is_zero_point_first4(first4_points_by_seat[seat]))
        ELSE LET min_excl ==
                     IF step = 1 THEN bids_by_pos[0]
                     ELSE IF step = 2
                          THEN IF ~passes_by_pos[1] THEN bids_by_pos[1]
                               ELSE Max2(bids_by_pos[0], 19)
                          ELSE IF final_pos = 1
                               THEN Max2(bids_by_pos[final_pos], 19)
                               ELSE bids_by_pos[final_pos]
             IN  BidTurnRules(seat, min_excl, max_bid, TRUE, FALSE)

validate_r1_bid_value_AllowEqual(rules, bid_value) ==
    IF bid_value = -1
    THEN IF ~rules.can_redeal THEN <<"Redeal not allowed for this player.">> ELSE <<>>
    ELSE IF bid_value = 0
    THEN IF ~rules.can_pass THEN <<"Pass not allowed for this player.">> ELSE <<>>
    ELSE IF bid_value < rules.min_bid_exclusive
    THEN <<"Bid must be >", ToString(rules.min_bid_exclusive)>>
    ELSE IF bid_value > rules.max_bid_inclusive
    THEN <<"Bid must be <=", ToString(rules.max_bid_inclusive)>>
    ELSE <<>>

\* the message of the ValueError validate_r1_bid_value raises, <<>> if none
validate_r1_bid_value(rules, bid_value) ==
    IF bid_value = -1
    THEN IF ~rules.can_redeal THEN <<"Redeal not allowed for this player.">> ELSE <<>>
    ELSE IF bid_value = 0
    THEN IF ~rules.can_pass THEN <<"Pass not allowed for this player.">> ELSE <<>>
    ELSE IF bid_value <= rules.min_bid_exclusive
    THEN <<"Bid must be >", ToString(rules.min_bid_exclusive)>>
    ELSE IF bid_value > rules.max_bid_inclusive
    THEN <<"Bid must be <=", ToString(rules.max_bid_inclusive)>>
    ELSE <<>>

\* round-2 rules whose floor is the bid of the turn before, not the highest
compute_r2_turn_rules_LastBid(bidding_order, step, bids_so_far_by_pos) ==
    BidTurnRules(bidding_order[step],
                 IF step > 0 /\ bids_so_far_by_pos[step - 1] # 0
                 THEN bids_so_far_by_pos[step - 1] ELSE 23,
                 28, TRUE, FALSE)

compute_r2_turn_rules(bidding_order, step, bids_so_far_by_pos) ==
    LET seat == bidding_order[step]
        max_bid == 28
        max_current ==
            MaxOf({bids_so_far_by_pos[p] : p \in {q \in 0..3 : bids_so_far_by_pos[q] # 0}}
                  \cup {23})
    IN  BidTurnRules(seat, max_current, max_bid, TRUE, FALSE)

\* the message of the ValueError validate_r2_bid_value raises, <<>> if none
validate_r2_bid_value(rules, bid_value) ==
    IF bid_value = 0 THEN <<>>
    ELSE IF bid_value <= rules.min_bid_exclusive
    THEN <<"Bid must be >", ToString(rules.min_bid_exclusive)>>
    ELSE IF bid_value > rules.max_bid_inclusive
    THEN <<"Bid must be <=", ToString(rules.max_bid_inclusive)>>
    ELSE <<>>

(***************************************************************************)
(* canonical_key.py                                                        *)
(***************************************************************************)
RANK_STRENGTH_ORDER == <<"J", "9", "A", "10", "K", "Q", "8", "7">>

RANK_STRENGTH(r) == IndexOf(RANK_STRENGTH_ORDER, r) - 1

RANK_NAME_TO_CODE(rank_name) ==
    CASE rank_name = "Jack" -> "J"
      [] rank_name = "Nine" -> "9"
      [] rank_name = "Ace" -> "A"
      [] rank_name = "Ten" -> "10"
      [] rank_name = "King" -> "K"
      [] rank_name = "Queen" -> "Q"
      [] rank_name = "Eight" -> "8"
      [] rank_name = "Seven" -> "7"

_rank_code_from_card_id(card_id) == RANK_NAME_TO_CODE(card_id[2])

RankCodes(cids) == [i \in 1..Len(cids) |-> _rank_code_from_card_id(cids[i])]

\* tuple(-RANK_STRENGTH[r] for r in rank_codes)
_strength_key(rank_codes) ==
    [i \in 1..Len(rank_codes) |-> 0 - RANK_STRENGTH(rank_codes[i])]

\* Python's "<" on two tuples of integers
TupleLess(a, b) ==
    \/ \E i \in 1..Len(a) :
          /\ i <= Len(b)
          /\ a[i] < b[i]
          /\ \A j \in 1..(i - 1) : a[j] = b[j]
    \/ /\ Len(a) < Len(b)
       /\ \A j \in 1..Len(a) : a[j] = b[j]

\* the keys of by_suit in insertion order: suits by first appearance
RECURSIVE SuitsByFirstAppearance(_, _)
SuitsByFirstAppearance(cids, seen) ==
    IF cids = <<>> THEN <<>>
    ELSE IF Head(cids)[1] \in seen
         THEN SuitsByFirstAppearance(Tail(cids), seen)
         ELSE <<Head(cids)[1]>>
              \o SuitsByFirstAppearance(Tail(cids), seen \cup {Head(cids)[1]})

\* stable insertion of a card id into a list sorted by RANK_STRENGTH
RECURSIVE InsertByStrength(_, _)
InsertByStrength(sorted, cid) ==
    IF sorted = <<>> THEN <<cid>>
    ELSE IF RANK_STRENGTH(_rank_code_from_card_id(cid))
              < RANK_STRENGTH(_rank_code_from_card_id(Head(sorted)))
         THEN <<cid>> \o sorted
         ELSE <<Head(sorted)>> \o InsertByStrength(Tail(sorted), cid)

RECURSIVE SortByStrength(_, _)
SortByStrength(cids, acc) ==
    IF cids = <<>> THEN acc
    ELSE SortByStrength(Tail(cids), InsertByStrength(acc, Head(cids)))

\* key=lambda g: (-len(g[0]), _strength_key(g[0])), compared as Python does
GroupKeyLess(g1, g2) ==
    \/ (0 - Len(g1)) < (0 - Len(g2))
    \/ /\ Len(g1) = Len(g2)
       /\ TupleLess(_strength_key(RankCodes(g1)), _strength_key(RankCodes(g2)))

RECURSIVE InsertGroup(_, _)
InsertGroup(sorted, g) ==
    IF sorted = <<>> THEN <<g>>
    ELSE IF GroupKeyLess(g, Head(sorted))
         THEN <<g>> \o sorted
         ELSE <<Head(sorted)>> \o InsertGroup(Tail(sorted), g)

RECURSIVE SortGroups(_, _)
SortGroups(groups, acc) ==
    IF groups = <<>> THEN acc
    ELSE SortGroups(Tail(groups), InsertGroup(acc, Head(groups)))

\* by_suit with every group sorted by RANK_STRENGTH
SuitGroups(first4_card_ids, suits) ==
    [k \in 1..Len(suits) |->
        SortByStrength(SelectSeq(first4_card_ids, LAMBDA cid : cid[1] = suits[k]), <<>>)]

CanonicalFrom(sorted_groups) ==
    [canonical_groups |->
         [k \in 1..Len(sorted_groups) |-> RankCodes(sorted_groups[k])],
     canonical_cardid_groups |-> sorted_groups,
     flat_card_ids |-> Flatten(sorted_groups)]

build_canonical_key_and_mapping(first4_card_ids) ==
    CanonicalFrom(SortGroups(
        SuitGroups(first4_card_ids, SuitsByFirstAppearance(first4_card_ids, {})),
        <<>>))

(***************************************************************************)
(* rules_infer.py                                                          *)
(***************************************************************************)
POINT_CARDS == {"J", "9", "A", "10"}

_base_bid_from_first_group(first) ==
    LET l1 == Len(first)
        s == SeqToSet(first)
    IN  IF l1 = 1 THEN 14
        ELSE IF l1 = 2
        THEN IF "J" \in s /\ (\E r \in {"9", "A", "10"} : r \in s) THEN 15 ELSE 14
        ELSE IF l1 = 3
        THEN IF "J" \in s /\ "9" \in s THEN 16
             ELSE IF /\ "J" \in s
                     /\ ("A" \in s \/ "10" \in s)
                     /\ (("A" \in s /\ "10" \in s) \/ ("K" \in s \/ "Q" \in s))
                  THEN 16
             ELSE IF "J" \in s /\ ("A" \in s \/ "10" \in s) THEN 15
             ELSE IF "J" \in s /\ "K" \in s /\ "Q" \in s THEN 15
             ELSE IF "J" \in s THEN 14
             ELSE IF "9" \in s /\ "A" \in s /\ "K" \in s THEN 15
             ELSE 14
        ELSE IF "J" \in s /\ (\E i \in 1..l1 : first[i] # "J" /\ first[i] \in POINT_CARDS)
             THEN 16
             ELSE IF "J" \in s THEN 15
             ELSE IF \E i \in 1..l1 : first[i] \in POINT_CARDS THEN 15
             ELSE 14

\* a prediction that counts the outside Jacks whatever the first group's size
_predict_bid_JacksAlways(groups) ==
    LET others == Flatten(Tail(groups))
    IN  _base_bid_from_first_group(groups[1])
        + Cardinality({i \in 1..Len(others) : others[i] = "J"})

_predict_bid(groups) ==
    LET first == groups[1]
        bid == _base_bid_from_first_group(first)
        others == Flatten(Tail(groups))
        extra_jacks == Cardinality({i \in 1..Len(others) : others[i] = "J"})
    IN  IF Len(first) >= 2 THEN bid + extra_jacks ELSE bid

_predict_trump_rank(groups) ==
    LET first == groups[1]
    IN  IF Len(first) = 1 THEN first[1]
        ELSE IF Len(first) = 2
        THEN IF first[1] = "J" THEN first[2] ELSE first[1]
        ELSE IF Len(first) = 3
        THEN IF "J" \in SeqToSet(first) /\ "9" \in SeqToSet(first)
             THEN first[Len(first)]
             ELSE first[2]
        ELSE first[Len(first)]

\* trump_index is 0-based, as flat.index(trump_rank)
predict_bid_and_trump_index(groups) ==
    [bid |-> _predict_bid(groups),
     trump_index |-> IndexOf(Flatten(groups), _predict_trump_rank(groups)) - 1]

(***************************************************************************)
(* bidding_bot.py                                                          *)
(***************************************************************************)
\* a plan that reads the trump index from the end of the flattened key
BidPlan_IndexFromEnd(canon, p) ==
    [bid |-> p.bid,
     trump_card_id |-> canon.flat_card_ids[Len(canon.flat_card_ids) - p.trump_index],
     canonical_groups |-> canon.canonical_groups]

BidPlan(canon, p) ==
    [bid |-> p.bid,
     trump_card_id |-> canon.flat_card_ids[p.trump_index + 1],
     canonical_groups |-> canon.canonical_groups]

PlanFromCanonical(canon) ==
    BidPlan(canon, predict_bid_and_trump_index(canon.canonical_groups))

plan_bid_and_trump_from_first4(first4_card_ids) ==
    PlanFromCanonical(build_canonical_key_and_mapping(first4_card_ids))

(***************************************************************************)
(* state.py: GameState                                                     *)
(***************************************************************************)
Seats == 0..3

BOT_SEATS == {0, 2}

GameId == "g1"

Zero4 == [i \in 0..3 |-> 0]

\* "P1".."P4" as printed in the event log for seat 0..3
Pn(seat) == <<"P1", "P2", "P3", "P4">>[seat + 1]

\* GameState(...) with the dataclass defaults. suit_matrix is no dataclass
\* field: the attribute is absent (None here) until init_play_state sets it.
GameState(starting_bidder_index, bidding_order, players_cards, draw_pile, event_log) ==
    [game_id |-> GameId,
     phase |-> "BIDDING_R1",
     starting_bidder_index |-> starting_bidder_index,
     bidding_order |-> bidding_order,
     bidding_r1_step |-> 0,
     bidding_r2_step |-> 0,
     bidding_r1_bids_by_pos |-> Zero4,
     bidding_r1_passes_by_pos |-> [i \in 0..3 |-> FALSE],
     bidding_r1_final_pos |-> 0,
     bidding_r2_bids_by_pos |-> Zero4,
     bids_r1_by_seat |-> Zero4,
     bids_r2_by_seat |-> Zero4,
     round1_bidder_seat |-> None,
     round1_bid_value |-> None,
     final_bidder_seat |-> None,
     final_bid_value |-> None,
     players_cards |-> players_cards,
     draw_pile |-> draw_pile,
     player_trump |-> None,
     finalBid |-> 0,
     finalBidValue |-> 0,
     trumpSuit |-> None,
     trumpReveal |-> FALSE,
     known |-> FALSE,
     chose |-> FALSE,
     leaderIndex |-> 0,
     catchNumber |-> 1,
     s |-> <<>>,
     currentSuit |-> "",
     trumpPlayed |-> FALSE,
     trumpIndice |-> Zero4,
     team1Points |-> 0,
     team2Points |-> 0,
     team1Catches |-> <<>>,
     team2Catches |-> <<>>,
     winnerTeam |-> None,
     suit_matrix |-> None,
     event_log |-> event_log]

turn_index(st) ==
    IF st.phase = "BIDDING_R1" THEN st.bidding_order[st.bidding_r1_step]
    ELSE IF st.phase = "BIDDING_R2" THEN st.bidding_order[st.bidding_r2_step]
    ELSE IF st.phase \in {"TRUMP_SELECT_R1", "TRUMP_SELECT_R2"}
         THEN IF IsNone(st.final_bidder_seat) THEN -1 ELSE Val(st.final_bidder_seat)
    ELSE IF st.phase = "PLAY" THEN (st.leaderIndex + Len(st.s)) % 4
    ELSE -1

HandPoints(hand) == SumSeq([i \in 1..Len(hand) |-> hand[i].points])

\* [sum(c.points for c in state.players_cards[i]) for i in range(4)]
first4_points_by_seat(st) == [i \in 0..3 |-> HandPoints(st.players_cards[i])]

HandIds(hand) == [i \in 1..Len(hand) |-> to_card_id(hand[i])]

\* serializer.serialize_card
serialize_card(card) ==
    [cardId |-> to_card_id(card), suit |-> card.suit, rank |-> card.rank,
     points |-> card.points, order |-> card.order, label |-> identity(card)]

\* the dict to_public_dict returns, trump_suit_visible being its local
PublicDict(st, trump_suit_visible) ==
    [gameId |-> st.game_id,
     phase |-> st.phase,
     startingBidderIndex |-> st.starting_bidder_index,
     turnIndex |-> turn_index(st),
     biddingOrder |-> st.bidding_order,
     seatTypes |-> <<"bot", "human", "bot", "human">>,
     players |-> [i \in 0..3 |->
                     [seatIndex |-> i,
                      cards |-> [k \in 1..Len(st.players_cards[i]) |-> serialize_card(st.players_cards[i][k])],
                      cardCount |-> Len(st.players_cards[i]),
                      team |-> IF i % 2 = 0 THEN 1 ELSE 2,
                      isBidder |-> st.final_bidder_seat = Some(i)]],
     drawPileCount |-> Len(st.draw_pile),
     bidsR1 |-> st.bids_r1_by_seat,
     bidsR2 |-> st.bids_r2_by_seat,
     round1BidderSeat |-> st.round1_bidder_seat,
     round1BidValue |-> st.round1_bid_value,
     finalBidderSeat |-> st.final_bidder_seat,
     finalBidValue |-> st.final_bid_value,
     hasConcealedTrump |-> ~IsNone(st.player_trump),
     play |-> [leaderIndex |-> st.leaderIndex,
               catchNumber |-> st.catchNumber,
               currentSuit |-> st.currentSuit,
               trumpReveal |-> st.trumpReveal,
               trumpSuit |-> trump_suit_visible,
               trickCards |-> [k \in 1..Len(st.s) |-> serialize_card(st.s[k])],
               trumpIndice |-> st.trumpIndice,
               team1Points |-> st.team1Points,
               team2Points |-> st.team2Points,
               winnerTeam |-> st.winnerTeam],
     eventLog |-> st.event_log]

\* a public view that shows the trump suit whether revealed or not
to_public_dict_TrumpSuitAlways(st) == PublicDict(st, st.trumpSuit)

\* GameState.to_public_dict
to_public_dict(st) == PublicDict(st, IF st.trumpReveal THEN st.trumpSuit ELSE None)

(***************************************************************************)
(* game_manager.py                                                         *)
(***************************************************************************)
validate_first4_hands(hands) ==
    /\ Len(hands) = 4
    /\ \A i \in 1..4 : Len(hands[i]) = 4
    /\ Cardinality(SeqToSet(Flatten(hands))) = 16
    /\ \A cid \in SeqToSet(Flatten(hands)) : ValidCardId(cid)

\* a creation that leaves the dealt cards in the draw pile
create_game_manual_first4_FullDeckPile(starting_bidder_index, first4_hands) ==
    GameState(starting_bidder_index,
              [i \in 0..3 |-> (starting_bidder_index + i) % 4],
              [seat \in 0..3 |-> [k \in 1..4 |-> from_card_id(first4_hands[seat + 1][k])]],
              packOf28,
              << <<"Game created (manual first-4).">>,
                 <<"Starting bidder:", Pn(starting_bidder_index)>> >>)

\* the game stored by create_game_manual_first4 for a valid request; the
\* order random.shuffle leaves the draw pile in is never read except to be
\* listed, so the pile is kept in deck order
create_game_manual_first4(starting_bidder_index, first4_hands) ==
    LET players_cards ==
            [seat \in 0..3 |->
                [k \in 1..4 |-> from_card_id(first4_hands[seat + 1][k])]]
        used_identities ==
            {identity(players_cards[seat][k]) : seat \in 0..3, k \in 1..4}
        remaining == SelectSeq(packOf28, LAMBDA c : identity(c) \notin used_identities)
        bidding_order == [i \in 0..3 |-> (starting_bidder_index + i) % 4]
    IN  GameState(starting_bidder_index, bidding_order, players_cards, remaining,
                  << <<"Game created (manual first-4).">>,
                     <<"Starting bidder:", Pn(starting_bidder_index)>> >>)

(***************************************************************************)
(* legacy/minimax.py and play_engine.py                                    *)
(***************************************************************************)
current_actor_index(leader_index, s_len) == (leader_index + s_len) % 4

\* state.py SUIT_MATRIX_INDEX: the matrix row of a suit
SUIT_MATRIX_INDEX(suit) == IndexOf(SUITS, suit) - 1

Ones4x4 == [r \in 0..3 |-> [c \in 0..3 |-> 1]]

TeamOf(seat) == IF seat % 2 = 0 THEN 1 ELSE 2

\* outcome of an operation that may raise: ok = FALSE is the raise, st the
\* state it leaves behind
Ok(st) == [ok |-> TRUE, exc |-> "", msg |-> <<>>, st |-> st]
Raise(st, msg) == [ok |-> FALSE, exc |-> "ValueError", msg |-> msg, st |-> st]
RaiseRuntime(st, msg) == [ok |-> FALSE, exc |-> "RuntimeError", msg |-> msg, st |-> st]

init_play_state_LeaderIsBidder(st) ==
    IF IsNone(st.final_bidder_seat) \/ IsNone(st.final_bid_value)
    THEN RaiseRuntime(st, <<"final bidder not set; cannot init play state">>)
    ELSE Ok([st EXCEPT
             !.finalBid = Val(st.final_bidder_seat) + 1,
             !.finalBidValue = Val(st.final_bid_value),
             !.trumpReveal = FALSE,
             !.known = FALSE,
             !.chose = FALSE,
             !.s = <<>>,
             !.currentSuit = "",
             !.trumpPlayed = FALSE,
             !.trumpIndice = Zero4,
             !.catchNumber = 1,
             !.team1Points = 0,
             !.team2Points = 0,
             !.team1Catches = <<>>,
             !.team2Catches = <<>>,
             !.leaderIndex = Val(st.final_bidder_seat),
             !.trumpSuit = IF IsNone(st.player_trump) THEN None
                           ELSE Some(Val(st.player_trump).suit),
             !.suit_matrix = Some(Ones4x4),
             !.event_log = st.event_log
                 \o << <<"Play initialized.">>,
                       <<"Leader for catch 1:", Pn(st.starting_bidder_index),
                         "(starting bidder).">> >>])

init_play_state(st) ==
    IF IsNone(st.final_bidder_seat) \/ IsNone(st.final_bid_value)
    THEN RaiseRuntime(st, <<"final bidder not set; cannot init play state">>)
    ELSE Ok([st EXCEPT
             !.finalBid = Val(st.final_bidder_seat) + 1,
             !.finalBidValue = Val(st.final_bid_value),
             !.trumpReveal = FALSE,
             !.known = FALSE,
             !.chose = FALSE,
             !.s = <<>>,
             !.currentSuit = "",
             !.trumpPlayed = FALSE,
             !.trumpIndice = Zero4,
             !.catchNumber = 1,
             !.team1Points = 0,
             !.team2Points = 0,
             !.team1Catches = <<>>,
             !.team2Catches = <<>>,
             !.leaderIndex = st.starting_bidder_index,
             !.trumpSuit = IF IsNone(st.player_trump) THEN None
                           ELSE Some(Val(st.player_trump).suit),
             !.suit_matrix = Some(Ones4x4),
             !.event_log = st.event_log
                 \o << <<"Play initialized.">>,
                       <<"Leader for catch 1:", Pn(st.starting_bidder_index),
                         "(starting bidder).">> >>])

HasIdentity(hand, card) == \E i \in 1..Len(hand) : identity(hand[i]) = identity(card)

IndexByIdentity(hand, card) ==
    IF HasIdentity(hand, card)
    THEN CHOOSE i \in 1..Len(hand) :
            /\ identity(hand[i]) = identity(card)
            /\ \A j \in 1..(i - 1) : identity(hand[j]) # identity(card)
    ELSE 0

IsTrumpCard(st, card) == ~IsNone(st.trumpSuit) /\ card.suit = Val(st.trumpSuit)

\* legacy_minimax.actions: the reveal decision [False, True], or the cards
\* the acting seat may play (follow the led suit if able)
legacy_actions(st) ==
    LET actor == current_actor_index(st.leaderIndex, Len(st.s))
        hand == st.players_cards[actor]
        isBidder == actor = st.finalBid - 1
        follow == SelectSeq(hand, LAMBDA c : c.suit = st.currentSuit)
        trumps == SelectSeq(hand, LAMBDA c : IsTrumpCard(st, c))
        concealed == IF isBidder /\ ~IsNone(st.player_trump)
                     THEN <<Val(st.player_trump)>> ELSE <<>>
        anyCard == IF hand # <<>> THEN hand ELSE concealed
    IN  IF Len(st.s) = 0 THEN [kind |-> "cards", cards |-> anyCard]
        ELSE IF follow # <<>> THEN [kind |-> "cards", cards |-> follow]
        ELSE IF ~st.trumpReveal /\ ~st.chose
             THEN [kind |-> "bool", cards |-> <<>>]
        ELSE IF st.trumpReveal /\ st.chose
             THEN IF concealed # <<>> /\ HasIdentity(hand, concealed[1])
                  THEN [kind |-> "cards", cards |-> concealed]
                  ELSE IF trumps # <<>> THEN [kind |-> "cards", cards |-> trumps]
                  ELSE [kind |-> "cards", cards |-> anyCard]
        ELSE [kind |-> "cards", cards |-> anyCard]

\* legacy_minimax.result with a boolean action (the reveal decision)
legacy_result_reveal(st, reveal) ==
    IF reveal
    THEN [st EXCEPT
          !.trumpReveal = TRUE,
          !.chose = TRUE,
          !.players_cards =
              IF ~IsNone(st.player_trump) /\ ~st.trumpReveal /\ st.finalBid >= 1
              THEN [st.players_cards EXCEPT
                    ![st.finalBid - 1] = Append(@, Val(st.player_trump))]
              ELSE st.players_cards]
    ELSE [st EXCEPT !.chose = TRUE]

\* legacy_minimax.result with a card action
legacy_result_card(st, card) ==
    LET actor == current_actor_index(st.leaderIndex, Len(st.s))
        hand == st.players_cards[actor]
        pos == Len(st.s)
        asTrump == st.trumpReveal /\ IsTrumpCard(st, card)
        isIndicator == ~IsNone(st.player_trump)
                       /\ identity(Val(st.player_trump)) = identity(card)
    IN  [st EXCEPT
         !.currentSuit = IF Len(st.s) = 0 THEN card.suit ELSE st.currentSuit,
         !.s = Append(st.s, card),
         !.players_cards =
             IF HasIdentity(hand, card)
             THEN [st.players_cards EXCEPT
                   ![actor] = RemoveAt(hand, IndexByIdentity(hand, card))]
             ELSE st.players_cards,
         !.player_trump = IF isIndicator THEN None ELSE st.player_trump,
         !.trumpPlayed = st.trumpPlayed \/ asTrump,
         !.trumpIndice = IF asTrump THEN [st.trumpIndice EXCEPT ![pos] = 1]
                         ELSE st.trumpIndice]

\* legacy_minimax.reset
legacy_reset(st) ==
    [st EXCEPT !.currentSuit = "", !.s = <<>>, !.trumpPlayed = FALSE,
               !.trumpIndice = Zero4, !.chose = FALSE]

\* legacy_minimax.checkwin_extended: the winning seat and the trick's points
legacy_checkwin_extended(st) ==
    LET cand == IF st.trumpPlayed
                THEN {i \in 1..4 : st.trumpIndice[i - 1] = 1}
                ELSE {i \in 1..4 : st.s[i].suit = st.currentSuit}
        best == CHOOSE i \in cand : \A j \in cand : st.s[j].order <= st.s[i].order
    IN  [winner_index |-> (st.leaderIndex + best - 1) % 4,
         points |-> HandPoints(st.s)]

Log(st, entry) == [st EXCEPT !.event_log = Append(st.event_log, entry)]

\* an inference that lasts for the trick only: the lead starts a fresh matrix
_infer_void_if_failed_follow_PerTrick(st, seat_index, pre_trick_len, led_suit, played_suit) ==
    IF pre_trick_len <= 0 THEN [st EXCEPT !.suit_matrix = Some(Ones4x4)]
    ELSE IF led_suit = "" \/ played_suit = led_suit THEN st
    ELSE [st EXCEPT !.suit_matrix =
              Some([Val(st.suit_matrix) EXCEPT ![SUIT_MATRIX_INDEX(led_suit)][seat_index] = 0])]

\* an inference that marks the suit played instead of the suit led
_infer_void_if_failed_follow_PlayedSuit(st, seat_index, pre_trick_len, led_suit, played_suit) ==
    IF pre_trick_len <= 0 \/ led_suit = "" \/ played_suit = led_suit THEN st
    ELSE [st EXCEPT !.suit_matrix =
              Some([Val(st.suit_matrix) EXCEPT ![SUIT_MATRIX_INDEX(played_suit)][seat_index] = 0])]

_infer_void_if_failed_follow(st, seat_index, pre_trick_len, led_suit, played_suit) ==
    IF pre_trick_len <= 0 THEN st
    ELSE IF led_suit = "" THEN st
    ELSE IF played_suit = led_suit THEN st
    ELSE LET row == SUIT_MATRIX_INDEX(led_suit)
         IN  IF row < 0 THEN st
             ELSE IF Val(st.suit_matrix)[row][seat_index] # 0
                  THEN Log([st EXCEPT !.suit_matrix =
                                Some([Val(st.suit_matrix) EXCEPT ![row][seat_index] = 0])],
                           <<"Inferred:", Pn(seat_index), "is void in", led_suit>>)
                  ELSE st

\* the reveal decision as booleans, or the playable cards as identities
SafeActions(acts) ==
    IF acts.kind = "bool"
    THEN [bools |-> <<FALSE, TRUE>>, idents |-> <<>>]
    ELSE [bools |-> <<>>,
          idents |-> [i \in 1..Len(acts.cards) |-> identity(acts.cards[i])]]

safe_legacy_actions(st) == SafeActions(legacy_actions(st))

PlayLegalActions(type, seatIndex, options, cardIds) ==
    [type |-> type, seatIndex |-> seatIndex, options |-> options, cardIds |-> cardIds]

\* the card of that identity in the seat's hand, else the concealed trump
FoundCard(st, seat, ident) ==
    LET hand == st.players_cards[seat]
        inHand == {i \in 1..Len(hand) : identity(hand[i]) = ident}
    IN  IF inHand # {}
        THEN <<hand[CHOOSE i \in inHand : \A j \in inHand : i <= j]>>
        ELSE IF ~IsNone(st.player_trump) /\ identity(Val(st.player_trump)) = ident
             THEN <<Val(st.player_trump)>>
             ELSE <<>>

\* the card id of the identity's card, as a list of at most one id
FoundCardId(found) == IF found = <<>> THEN <<>> ELSE <<to_card_id(found[1])>>

LegalFromActions(st, seat, acts) ==
    IF acts.bools = <<>> /\ acts.idents = <<>>
    THEN PlayLegalActions("NO_ACTION", seat, <<>>, <<>>)
    ELSE IF acts.bools # <<>>
         THEN PlayLegalActions("REVEAL_CHOICE", seat, acts.bools, <<>>)
         ELSE PlayLegalActions("PLAY_CARD", seat, <<>>,
                  Flatten([i \in 1..Len(acts.idents) |->
                              FoundCardId(FoundCard(st, seat, acts.idents[i]))]))

compute_play_legal_actions(st) ==
    LegalFromActions(st, current_actor_index(st.leaderIndex, Len(st.s)),
                     safe_legacy_actions(st))

\* a reveal choice that starts the trick afresh
apply_reveal_choice_ResetsTrick(st, seat_index, reveal) ==
    Ok([legacy_result_reveal(st, reveal) EXCEPT !.s = <<>>])

apply_reveal_choice_AnySeat(st, seat_index, reveal) ==
    IF reveal
    THEN Ok(Log([legacy_result_reveal(st, reveal) EXCEPT !.known = TRUE],
                <<Pn(seat_index), "revealed trump.">>))
    ELSE Ok(Log(legacy_result_reveal(st, reveal),
                <<Pn(seat_index), "chose not to reveal trump.">>))

apply_reveal_choice(st, seat_index, reveal) ==
    LET actor == current_actor_index(st.leaderIndex, Len(st.s))
    IN  IF seat_index # actor THEN Raise(st, <<"Not your turn.">>)
        ELSE LET st1 == legacy_result_reveal(st, reveal)
             IN  IF reveal
                 THEN Ok(Log([st1 EXCEPT !.known = TRUE],
                             <<Pn(seat_index), "revealed trump.">>))
                 ELSE Ok(Log(st1, <<Pn(seat_index), "chose not to reveal trump.">>))

_find_card_object_for_play(st, seat_index, card_id) ==
    FoundCard(st, seat_index, identity(from_card_id(card_id)))

\* the play of the card object found for an accepted card id
PlayFoundCard(st, seat_index, card_obj) ==
    Ok(Log(_infer_void_if_failed_follow(
               legacy_result_card(st, card_obj), seat_index, Len(st.s),
               st.currentSuit, card_obj.suit),
           <<Pn(seat_index), "played", identity(card_obj)>>))

PlayIfFound(st, seat_index, found) ==
    IF found = <<>> THEN Raise(st, <<"Card not found to play.">>)
    ELSE PlayFoundCard(st, seat_index, found[1])

PlayIfLegal_AnyHeldCard(st, seat_index, card_id, legal) ==
    IF legal.type # "PLAY_CARD" \/ legal.cardIds = <<>>
    THEN Raise(st, <<"Not expecting a card play right now.">>)
    ELSE IF ~ValidCardId(card_id) THEN Raise(st, <<"Illegal card.">>)
    ELSE PlayIfFound(st, seat_index,
                     _find_card_object_for_play(st, seat_index, card_id))

PlayIfLegal(st, seat_index, card_id, legal) ==
    IF legal.type # "PLAY_CARD" \/ legal.cardIds = <<>>
    THEN Raise(st, <<"Not expecting a card play right now.">>)
    ELSE IF card_id \notin SeqToSet(legal.cardIds) THEN Raise(st, <<"Illegal card.">>)
    ELSE PlayIfFound(st, seat_index,
                     _find_card_object_for_play(st, seat_index, card_id))

\* a play that checks neither the turn nor the legal cards
apply_play_card_HeldCard(st, seat_index, card_id) ==
    PlayIfFound(st, seat_index, _find_card_object_for_play(st, seat_index, card_id))

apply_play_card(st, seat_index, card_id) ==
    IF seat_index # current_actor_index(st.leaderIndex, Len(st.s))
    THEN Raise(st, <<"Not your turn.">>)
    ELSE PlayIfLegal(st, seat_index, card_id, compute_play_legal_actions(st))

OtherTeam(bidder_team) == IF bidder_team = 1 THEN 2 ELSE 1

\* the end of the game once the catch counter has reached 9
GameOver(st, bidder_team, bidding_points) ==
    IF bidding_points >= st.finalBidValue
    THEN [Log(st, <<"GAME OVER: Team", ToString(bidder_team), "wins",
                    ToString(bidding_points), ">=", ToString(st.finalBidValue)>>)
          EXCEPT !.winnerTeam = Some(bidder_team), !.phase = "GAME_OVER"]
    ELSE [Log(st, <<"GAME OVER: Team", ToString(OtherTeam(bidder_team)), "wins",
                    ToString(bidding_points), "<", ToString(st.finalBidValue)>>)
          EXCEPT !.winnerTeam = Some(OtherTeam(bidder_team)), !.phase = "GAME_OVER"]

GameOverFor(st, bidder_team) ==
    GameOver(st, bidder_team,
             IF bidder_team = 1 THEN st.team1Points ELSE st.team2Points)

EndIfLastCatch_OneEarly(st) ==
    IF st.catchNumber >= 8 THEN GameOverFor(st, TeamOf(st.finalBid - 1)) ELSE st

EndIfLastCatch(st) ==
    IF st.catchNumber >= 9 THEN GameOverFor(st, TeamOf(st.finalBid - 1)) ELSE st

\* a scoring that adds the points of the catch to both teams
ScoreCatch_BothTeams(st, winner_index, points, winner_team) ==
    EndIfLastCatch(
        [legacy_reset(
             Log(IF winner_team = 1
                 THEN [st EXCEPT !.team1Points = @ + points, !.team2Points = @ + points,
                                 !.team1Catches = Append(@, st.s)]
                 ELSE [st EXCEPT !.team2Points = @ + points, !.team1Points = @ + points,
                                 !.team2Catches = Append(@, st.s)],
                 <<"Catch", ToString(st.catchNumber), "won by", Pn(winner_index),
                   "Team", ToString(winner_team), "for", ToString(points), "points.">>))
         EXCEPT !.leaderIndex = winner_index, !.catchNumber = @ + 1])

\* the scoring of a complete catch won by winner_index
ScoreCatch(st, winner_index, points, winner_team) ==
    EndIfLastCatch(
        [legacy_reset(
             Log(IF winner_team = 1
                 THEN [st EXCEPT !.team1Points = @ + points,
                                 !.team1Catches = Append(@, st.s)]
                 ELSE [st EXCEPT !.team2Points = @ + points,
                                 !.team2Catches = Append(@, st.s)],
                 <<"Catch", ToString(st.catchNumber), "won by", Pn(winner_index),
                   "Team", ToString(winner_team), "for", ToString(points), "points.">>))
         EXCEPT !.leaderIndex = winner_index, !.catchNumber = @ + 1])

Abs(n) == IF n < 0 THEN 0 - n ELSE n

\* a scoring that credits the team of the seat that led the catch
ResolveWith_LeaderTeam(st, w) ==
    ScoreCatch(st, w.winner_index, Abs(w.points), TeamOf(st.leaderIndex))

ResolveWith(st, w) ==
    ScoreCatch(st, w.winner_index, Abs(w.points), TeamOf(w.winner_index))

resolve_if_catch_complete(st) ==
    IF Len(st.s) # 4 THEN st ELSE ResolveWith(st, legacy_checkwin_extended(st))

(***************************************************************************)
(* ws.py: helpers                                                          *)
(***************************************************************************)
\* the hands of rest_hands that do not hold exactly 4 cards
WrongSizeHands(rest_hands) == {i \in 1..Len(rest_hands) : Len(rest_hands[i]) # 4}

_validate_manual_rest_deal_AnyCards(st, rest_hands) ==
    IF Len(rest_hands) # 4
    THEN <<"restHands must have 4 lists (one per player).">>
    ELSE IF WrongSizeHands(rest_hands) # {}
    THEN <<"Player", ToString(MinOf(WrongSizeHands(rest_hands))),
           "must receive exactly 4 cards.">>
    ELSE IF Cardinality(SeqToSet(Flatten(rest_hands))) # 16
    THEN <<"Duplicate cardIds found in restHands.">>
    ELSE <<>>

\* the message of the ValueError _validate_manual_rest_deal raises, <<>> if none
_validate_manual_rest_deal(st, rest_hands) ==
    IF Len(rest_hands) # 4
    THEN <<"restHands must have 4 lists (one per player).">>
    ELSE IF WrongSizeHands(rest_hands) # {}
    THEN <<"Player", ToString(MinOf(WrongSizeHands(rest_hands))),
           "must receive exactly 4 cards.">>
    ELSE IF Len(Flatten(rest_hands)) # 16
    THEN <<"Total restHands cards must be 16.">>
    ELSE IF Cardinality(SeqToSet(Flatten(rest_hands))) # 16
    THEN <<"Duplicate cardIds found in restHands.">>
    ELSE IF SeqToSet(HandIds(st.draw_pile)) # SeqToSet(Flatten(rest_hands))
    THEN <<"restHands must use exactly the 16 remaining draw pile cards.">>
    ELSE <<>>

_partner_seat(seat) == (seat + 2) % 4

\* (max_bid, seatIndex) among bids_r1_by_seat, first seat on ties
_current_highest_r1(st) ==
    LET bidders == {seat \in 0..3 : st.bids_r1_by_seat[seat] > 0}
        max_bid == MaxOf({st.bids_r1_by_seat[seat] : seat \in bidders} \cup {0})
        maxers == {seat \in bidders : st.bids_r1_by_seat[seat] = max_bid}
    IN  [max_bid |-> max_bid,
         max_seat |-> IF maxers = {} THEN None
                      ELSE Some(CHOOSE x \in maxers : \A y \in maxers : x <= y)]

\* the end of round 1 once its step has reached 4
R1Winner(st, winner_seat, winner_bid) ==
    Log([st EXCEPT !.round1_bidder_seat = Some(winner_seat),
                   !.round1_bid_value = Some(winner_bid),
                   !.final_bidder_seat = Some(winner_seat),
                   !.final_bid_value = Some(winner_bid),
                   !.phase = "TRUMP_SELECT_R1"],
        <<"R1 winner:", Pn(winner_seat), "with", ToString(winner_bid),
          "Select trump.">>)

EndR1IfComplete(st) ==
    IF st.bidding_r1_step >= 4
    THEN R1Winner(st, st.bidding_order[st.bidding_r1_final_pos],
                  st.bidding_r1_bids_by_pos[st.bidding_r1_final_pos])
    ELSE st

\* the recording of an accepted round-1 bid
RecordR1Bid(st, seat, bid_value) ==
    EndR1IfComplete(
        [(IF bid_value = 0
          THEN Log([st EXCEPT !.bidding_r1_bids_by_pos[st.bidding_r1_step] = bid_value,
                              !.bids_r1_by_seat[seat] = bid_value,
                              !.bidding_r1_passes_by_pos[st.bidding_r1_step] = TRUE],
                   <<Pn(seat), "passed.">>)
          ELSE Log([st EXCEPT !.bidding_r1_bids_by_pos[st.bidding_r1_step] = bid_value,
                              !.bids_r1_by_seat[seat] = bid_value,
                              !.bidding_r1_final_pos = st.bidding_r1_step],
                   <<Pn(seat), "bid", ToString(bid_value)>>))
         EXCEPT !.bidding_r1_step = @ + 1])

R1Rules(st) ==
    compute_r1_turn_rules(st.bidding_order, st.bidding_r1_step,
                          st.bidding_r1_bids_by_pos, st.bidding_r1_passes_by_pos,
                          st.bidding_r1_final_pos, first4_points_by_seat(st))

_apply_r1_bid(st, seat, bid_value) ==
    IF seat # turn_index(st) THEN Raise(st, <<"Not this seat's turn to bid (R1).">>)
    ELSE IF validate_r1_bid_value(R1Rules(st), bid_value) # <<>>
    THEN Raise(st, validate_r1_bid_value(R1Rules(st), bid_value))
    ELSE IF bid_value = -1 THEN Raise(st, <<"Redeal flow not implemented yet.">>)
    ELSE Ok(RecordR1Bid(st, seat, bid_value))

\* Python's list.index: position of the first occurrence
FirstPos(f, v) == CHOOSE p \in 0..3 : f[p] = v /\ \A q \in 0..(p - 1) : f[q] # v

\* an outcome followed by one more log entry when it did not raise
ThenLog(r, entry) == IF r.ok THEN Ok(Log(r.st, entry)) ELSE r

ReturnOldTrump_Skipped(st) == st

\* the old concealed trump goes back to the round-1 bidder's hand
ReturnOldTrump(st) ==
    IF ~IsNone(st.player_trump) /\ ~IsNone(st.round1_bidder_seat)
    THEN [st EXCEPT !.players_cards[Val(st.round1_bidder_seat)] =
                        Append(@, Val(st.player_trump))]
    ELSE st

R2Winner(st, new_bidder_seat, max_bid) ==
    Log([ReturnOldTrump(st) EXCEPT !.final_bidder_seat = Some(new_bidder_seat),
                                   !.final_bid_value = Some(max_bid),
                                   !.phase = "TRUMP_SELECT_R2"],
        <<"R2 winner:", Pn(new_bidder_seat), "with", ToString(max_bid),
          "Select new trump.">>)

EndR2(st, max_bid) ==
    IF max_bid = 0
    THEN ThenLog(init_play_state(
                     [st EXCEPT !.final_bidder_seat = st.round1_bidder_seat,
                                !.final_bid_value = st.round1_bid_value,
                                !.phase = "PLAY"]),
                 <<"No further bids in R2. Entering PLAY.">>)
    ELSE Ok(R2Winner(st, st.bidding_order[FirstPos(st.bidding_r2_bids_by_pos, max_bid)],
                     max_bid))

EndR2IfComplete(st) ==
    IF st.bidding_r2_step >= 4
    THEN EndR2(st, MaxOf({st.bidding_r2_bids_by_pos[p] : p \in 0..3}))
    ELSE Ok(st)

\* the recording of an accepted round-2 bid
RecordR2Bid(st, seat, bid_value) ==
    EndR2IfComplete(
        [Log([st EXCEPT !.bidding_r2_bids_by_pos[st.bidding_r2_step] = bid_value,
                        !.bids_r2_by_seat[seat] = bid_value],
             IF bid_value = 0 THEN <<Pn(seat), "passed (R2).">>
             ELSE <<Pn(seat), "bid", ToString(bid_value), "(R2).">>)
         EXCEPT !.bidding_r2_step = @ + 1])

R2Rules(st) ==
    compute_r2_turn_rules(st.bidding_order, st.bidding_r2_step,
                          st.bidding_r2_bids_by_pos)

_apply_r2_bid(st, seat, bid_value) ==
    IF seat # turn_index(st) THEN Raise(st, <<"Not this seat's turn to bid (R2).">>)
    ELSE IF validate_r2_bid_value(R2Rules(st), bid_value) # <<>>
    THEN Raise(st, validate_r2_bid_value(R2Rules(st), bid_value))
    ELSE RecordR2Bid(st, seat, bid_value)

\* a trump selection that enters PLAY whichever round it belongs to
AfterTrumpTaken_StraightToPlay(st, was_r1) ==
    ThenLog(init_play_state([st EXCEPT !.phase = "PLAY"]),
            <<"Entering PLAY after R2 trump selection.">>)

AfterTrumpTaken(st, was_r1) ==
    IF was_r1
    THEN Ok(Log([st EXCEPT !.phase = "MANUAL_DEAL_REST"],
                <<"Manual deal: assign the remaining 4 cards to each player.">>))
    ELSE ThenLog(init_play_state([st EXCEPT !.phase = "PLAY"]),
                 <<"Entering PLAY after R2 trump selection.">>)

\* hand.pop(i) into player_trump
PopTrump(st, seat, i) ==
    Log([st EXCEPT !.player_trump = Some(st.players_cards[seat][i]),
                   !.players_cards[seat] = RemoveAt(@, i)],
        <<Pn(seat), "selected a concealed trump card.">>)

\* the removal of the chosen card from the selector's hand and what follows;
\* card_id is a valid id held by the seat
TakeTrumpCard(st, seat, card_id) ==
    AfterTrumpTaken(
        PopTrump(st, seat, IndexByIdentity(st.players_cards[seat], from_card_id(card_id))),
        st.phase = "TRUMP_SELECT_R1")

_apply_select_trump_card(st, seat, card_id) ==
    IF st.phase \notin {"TRUMP_SELECT_R1", "TRUMP_SELECT_R2"}
    THEN Raise(st, <<"Not in trump selection phase.">>)
    ELSE IF IsNone(st.final_bidder_seat) THEN Raise(st, <<"final_bidder_seat not set.">>)
    ELSE IF seat # Val(st.final_bidder_seat)
    THEN Raise(st, <<"Not your trump selection turn.">>)
    ELSE IF ~ValidCardId(card_id) THEN Raise(st, <<"Invalid cardId">>)
    ELSE IF ~HasIdentity(st.players_cards[seat], from_card_id(card_id))
    THEN Raise(st, <<"Card not in hand.">>)
    ELSE TakeTrumpCard(st, seat, card_id)

\* "do not overcall partner bot", else the planned bid if it tops the highest
BotWish(plan_bid, h, partner) ==
    IF ~IsNone(h.max_seat) /\ Val(h.max_seat) = partner /\ Val(h.max_seat) \in BOT_SEATS
    THEN 0
    ELSE IF plan_bid > h.max_bid THEN plan_bid ELSE 0

BotFit(bid_value, rules) ==
    IF bid_value # 0 /\ (bid_value <= rules.min_bid_exclusive
                         \/ bid_value > rules.max_bid_inclusive)
    THEN 0 ELSE bid_value

BotForce(bid_value, rules) ==
    IF bid_value = 0 /\ ~rules.can_pass
    THEN Max2(rules.min_bid_exclusive + 1, 14)
    ELSE bid_value

\* a bot that bids what it planned whatever the turn
BotBidUnder_PlanAlways(plan_bid, h, partner, rules) == plan_bid

BotBidUnder(plan_bid, h, partner, rules) ==
    BotForce(BotFit(BotWish(plan_bid, h, partner), rules), rules)

\* the value a bot seat bids in round 1
BotR1BidValue(st, seat) ==
    BotBidUnder(plan_bid_and_trump_from_first4(HandIds(st.players_cards[seat])).bid,
                _current_highest_r1(st), _partner_seat(seat), R1Rules(st))

TrumpFallback(card_id, legal_ids) ==
    IF card_id \notin SeqToSet(legal_ids) /\ legal_ids # <<>>
    THEN legal_ids[1] ELSE card_id

\* the card a bot seat conceals in TRUMP_SELECT_R1
BotR1TrumpCardId(st, seat) ==
    TrumpFallback(
        plan_bid_and_trump_from_first4(HandIds(st.players_cards[seat])).trump_card_id,
        HandIds(st.players_cards[seat]))

\* a bot that raises in round 2 while the ceiling allows
BotR2BidValue_Raises(st, seat) ==
    IF R2Rules(st).min_bid_exclusive < 28 THEN R2Rules(st).min_bid_exclusive + 1 ELSE 0

\* the value a bot seat bids in round 2: "Bots always pass in R2"
BotR2BidValue(st, seat) == 0

\* the loop of _advance_bots_until_human_any_phase up to its hand-over to
\* advance_bots_until_human in PLAY
RECURSIVE _advance_bots_until_human_any_phase(_)
_advance_bots_until_human_any_phase(st) ==
    LET Continue(r) == IF r.ok THEN _advance_bots_until_human_any_phase(r.st) ELSE r
    IN  IF st.phase = "BIDDING_R1"
        THEN IF turn_index(st) \notin BOT_SEATS THEN Ok(st)
             ELSE Continue(_apply_r1_bid(st, turn_index(st),
                                         BotR1BidValue(st, turn_index(st))))
        ELSE IF st.phase = "TRUMP_SELECT_R1"
        THEN IF IsNone(st.final_bidder_seat) \/ Val(st.final_bidder_seat) \notin BOT_SEATS
             THEN Ok(st)
             ELSE Continue(_apply_select_trump_card(
                               st, Val(st.final_bidder_seat),
                               BotR1TrumpCardId(st, Val(st.final_bidder_seat))))
        ELSE IF st.phase = "MANUAL_DEAL_REST" THEN Ok(st)
        ELSE IF st.phase = "BIDDING_R2"
        THEN IF turn_index(st) \notin BOT_SEATS THEN Ok(st)
             ELSE Continue(_apply_r2_bid(st, turn_index(st),
                                         BotR2BidValue(st, turn_index(st))))
        ELSE IF st.phase = "TRUMP_SELECT_R2"
        THEN IF IsNone(st.final_bidder_seat) \/ Val(st.final_bidder_seat) \notin BOT_SEATS
             THEN Ok(st)
             ELSE IF st.players_cards[Val(st.final_bidder_seat)] = <<>> THEN Ok(st)
             ELSE Continue(_apply_select_trump_card(
                               st, Val(st.final_bidder_seat),
                               to_card_id(st.players_cards[Val(st.final_bidder_seat)][1])))
        ELSE Ok(st)

(***************************************************************************)
(* The games created and the messages sent                                 *)
(***************************************************************************)
\* first-four deals: the one of the bidding tests, one with zero-point hands
\* at seats 0 and 3, one whose pile holds the four Jacks, one with every
\* Spade on seats 0 and 2
Deals ==
    << << << <<"Spades", "Jack">>, <<"Spades", "Nine">>, <<"Spades", "Seven">>, <<"Hearts", "Ace">> >>,
          << <<"Hearts", "King">>, <<"Diamonds", "Ace">>, <<"Clubs", "Seven">>, <<"Clubs", "Eight">> >>,
          << <<"Diamonds", "Jack">>, <<"Diamonds", "Nine">>, <<"Clubs", "Ace">>, <<"Spades", "Ace">> >>,
          << <<"Hearts", "Seven">>, <<"Hearts", "Eight">>, <<"Clubs", "King">>, <<"Diamonds", "Seven">> >> >>,
       << << <<"Clubs", "King">>, <<"Diamonds", "Queen">>, <<"Hearts", "Seven">>, <<"Spades", "Eight">> >>,
          << <<"Hearts", "Ace">>, <<"Diamonds", "Ace">>, <<"Clubs", "Ace">>, <<"Spades", "Ace">> >>,
          << <<"Hearts", "Ten">>, <<"Diamonds", "Ten">>, <<"Clubs", "Ten">>, <<"Spades", "Ten">> >>,
          << <<"Hearts", "King">>, <<"Diamonds", "King">>, <<"Clubs", "Queen">>, <<"Spades", "Queen">> >> >>,
       << << <<"Spades", "Nine">>, <<"Spades", "Ace">>, <<"Hearts", "Ace">>, <<"Diamonds", "Ace">> >>,
          << <<"Clubs", "Nine">>, <<"Clubs", "Ace">>, <<"Hearts", "Ten">>, <<"Diamonds", "Ten">> >>,
          << <<"Spades", "Ten">>, <<"Hearts", "Nine">>, <<"Diamonds", "Nine">>, <<"Clubs", "Ten">> >>,
          << <<"Hearts", "King">>, <<"Diamonds", "King">>, <<"Clubs", "King">>, <<"Spades", "King">> >> >>,
       << << <<"Spades", "Jack">>, <<"Spades", "Nine">>, <<"Spades", "Eight">>, <<"Spades", "Seven">> >>,
          << <<"Hearts", "Ace">>, <<"Hearts", "Ten">>, <<"Diamonds", "Ace">>, <<"Clubs", "Ace">> >>,
          << <<"Spades", "Ace">>, <<"Spades", "Ten">>, <<"Spades", "King">>, <<"Spades", "Queen">> >>,
          << <<"Hearts", "King">>, <<"Diamonds", "King">>, <<"Clubs", "King">>, <<"Hearts", "Nine">> >> >> >>

\* (startingBidderIndex, deal) of the POST /games requests considered
Scenarios == {<<0, 1>>, <<1, 1>>, <<0, 2>>, <<3, 2>>, <<1, 3>>, <<0, 4>>}

BidValues == {-1, 0, 13, 14, 16, 17, 19, 20, 23, 24, 28, 29}

BadCardId == <<"Hearts", "Two">>

\* a frame sent to the client: its type, and the message of an ERROR frame
Frame(type, message) == [type |-> type, message |-> message]

\* _send_state: STATE_UPDATE then LEGAL_ACTIONS
StateFrames == <<Frame("STATE_UPDATE", <<>>), Frame("LEGAL_ACTIONS", <<>>)>>

ErrorFrames(message) == <<Frame("ERROR", message)>>

FirstIds(hand) == IF hand = <<>> THEN {} ELSE {to_card_id(hand[1])}

BiddingPhases == {"BIDDING_R1", "BIDDING_R2"}

TrumpSelectPhases == {"TRUMP_SELECT_R1", "TRUMP_SELECT_R2"}

\* seatIndex inputs tried: every seat in the phases the message belongs to,
\* one seat elsewhere (the reply does not depend on it)
SeatInputs(st, phases) == IF st.phase \in phases THEN Seats ELSE {1}

\* bidValue inputs tried: BidValues while bids are taken, one value elsewhere
BidInputs(st) == IF st.phase \in BiddingPhases THEN BidValues ELSE {14}

\* cardId inputs tried for a seat in the phases the message belongs to. For
\* the seat to act: its hand, the concealed trump, the first card of the next
\* seat and an id that names no card. For another seat: its first card and
\* the first card of the seat to act. Elsewhere one id.
CardIdInputs(st, seat, phases) ==
    IF st.phase \notin phases THEN {BadCardId}
    ELSE IF seat = turn_index(st)
    THEN SeqToSet(HandIds(st.players_cards[seat]))
         \cup (IF IsNone(st.player_trump) THEN {} ELSE {to_card_id(Val(st.player_trump))})
         \cup FirstIds(st.players_cards[(seat + 1) % 4])
         \cup {BadCardId}
    ELSE FirstIds(st.players_cards[seat]) \cup FirstIds(st.players_cards[turn_index(st)])

DealChunks(ids) == [i \in 1..4 |-> SubSeq(ids, 4 * (i - 1) + 1, 4 * i)]

DealRoundRobin(ids) == [i \in 1..4 |-> [k \in 1..4 |-> ids[4 * (k - 1) + i]]]

\* the invalid lists tried: a missing hand, a short hand, a duplicate, and a
\* card that is not in the pile
BadRestDeals(chunks, foreign_id) ==
    {SubSeq(chunks, 1, 3),
     [chunks EXCEPT ![1] = SubSeq(@, 1, 3), ![2] = Append(@, chunks[1][4])],
     [chunks EXCEPT ![1][1] = chunks[1][2]],
     [chunks EXCEPT ![1][1] = foreign_id]}

\* restHands inputs tried: two valid partitions of the pile and the invalid lists
RestDealInputs(st) ==
    IF Len(st.draw_pile) # 16 THEN {<<>>}
    ELSE {DealChunks(HandIds(st.draw_pile)), DealRoundRobin(HandIds(st.draw_pile))}
         \cup BadRestDeals(DealChunks(HandIds(st.draw_pile)),
                           to_card_id(st.players_cards[0][1]))

DefaultRestDeal(st) == DealChunks(HandIds(st.draw_pile))

(***************************************************************************)
(* ws.py: ws_game                                                          *)
(***************************************************************************)
\* Settings.max_concurrent_bot_thinking when APP_MAX_CONCURRENT_BOT_THINKING is unset
max_concurrent_bot_thinking == 1

Conns == 1..MaxConns

\* a connection whose handler is not inside advance_bots_until_human
Idle == [at |-> "idle", left |-> 0]

Init ==
    \E sc \in Scenarios :
        /\ validate_first4_hands(Deals[sc[2]])
        /\ state = create_game_manual_first4(sc[1], Deals[sc[2]])
        /\ games = {GameId}
        /\ pc = "closed"
        /\ frames = <<>>
        /\ deviations = 0
        /\ settings = [max_concurrent_bot_thinking |-> max_concurrent_bot_thinking]
        /\ bot_sem = settings.max_concurrent_bot_thinking
        /\ bot_loops = [c \in Conns |-> Idle]

\* what a handler does with a message: the state it leaves, where the
\* connection stands afterwards, the frames it sent, and whether the input
\* was other than the default one
Reply(st, next_pc, out, dev) == [st |-> st, pc |-> next_pc, frames |-> out, dev |-> dev]

\* await websocket.send_json({"type": "ERROR", "message": ...}); continue
ErrorReply(st, message) == Reply(st, "recv", ErrorFrames(message), FALSE)

IsErrorReply(out) == Len(out) = 1 /\ out[1].type = "ERROR"

Adv(r) == IF r.ok THEN _advance_bots_until_human_any_phase(r.st) ELSE r

\* the end of a handler whose work is outside any try block: an exception
\* ends the connection, a bot to act in PLAY is awaited, else the state is sent
Deliver_WithoutPlayBots(r, dev) ==
    IF ~r.ok THEN Reply(r.st, "closed", <<>>, dev)
    ELSE Reply(r.st, "recv", StateFrames, dev)

Deliver(r, dev) ==
    IF ~r.ok THEN Reply(r.st, "closed", <<>>, dev)
    ELSE IF r.st.phase = "PLAY" /\ turn_index(r.st) \in BOT_SEATS
         THEN Reply(r.st, "bots", <<>>, dev)
         ELSE Reply(r.st, "recv", StateFrames, dev)

\* the end of a handler that catches ValueError around its work
DeliverCaught(st, r, dev) ==
    IF ~r.ok /\ r.exc = "ValueError"
    THEN Reply(r.st, "recv", ErrorFrames(r.msg), r.st # st)
    ELSE Deliver(r, dev)

GET_STATE(st) == Reply(st, "recv", StateFrames, FALSE)

NotTurnToBid(seat) == <<"Not", Pn(seat), "'s turn to bid.">>

\* the reply to a redeal request the rules allow
RedealRequest(st, seat) ==
    Reply(Log(st, <<Pn(seat), "requested redeal (not implemented).">>), "recv",
          ErrorFrames(<<"Redeal flow not implemented yet.">>), TRUE)

SubmitBidR1(st, seat, bid_value, invalid) ==
    IF seat # turn_index(st) THEN ErrorReply(st, NotTurnToBid(seat))
    ELSE IF invalid # <<>> THEN ErrorReply(st, invalid)
    ELSE IF bid_value = -1 THEN RedealRequest(st, seat)
    ELSE Deliver(Adv(Ok(RecordR1Bid(st, seat, bid_value))),
                 bid_value # (IF R1Rules(st).can_pass THEN 0 ELSE 14))

SubmitBidR2(st, seat, bid_value, invalid) ==
    IF seat # turn_index(st) THEN ErrorReply(st, NotTurnToBid(seat))
    ELSE IF invalid # <<>> THEN ErrorReply(st, invalid)
    ELSE Deliver(Adv(RecordR2Bid(st, seat, bid_value)), bid_value # 0)

SUBMIT_BID(st, seat, bid_value) ==
    IF st.phase = "BIDDING_R1"
    THEN SubmitBidR1(st, seat, bid_value, validate_r1_bid_value(R1Rules(st), bid_value))
    ELSE IF st.phase = "BIDDING_R2"
    THEN SubmitBidR2(st, seat, bid_value, validate_r2_bid_value(R2Rules(st), bid_value))
    ELSE ErrorReply(st, <<"Not in a bidding phase.">>)

SELECT_TRUMP_CARD(st, seat, card_id) ==
    IF st.phase \notin TrumpSelectPhases
    THEN ErrorReply(st, <<"Not in trump selection phase.">>)
    ELSE IF IsNone(st.final_bidder_seat)
    THEN ErrorReply(st, <<"final_bidder_seat not set.">>)
    ELSE IF seat # Val(st.final_bidder_seat)
    THEN ErrorReply(st, <<"Not your trump selection turn.">>)
    ELSE IF ~ValidCardId(card_id)
    THEN \* from_card_id raises outside any try block
         Deliver(Raise(st, <<"Invalid cardId">>), FALSE)
    ELSE IF ~HasIdentity(st.players_cards[seat], from_card_id(card_id))
    THEN ErrorReply(st, <<"Card not in hand.">>)
    ELSE Deliver(Adv(TakeTrumpCard(st, seat, card_id)),
                 card_id # to_card_id(st.players_cards[seat][1]))

\* the rest deal of an accepted SUBMIT_REST_DEAL
DealRest(st, rest_hands) ==
    Log([st EXCEPT
         !.players_cards =
             [seat \in 0..3 |->
                 st.players_cards[seat]
                 \o [k \in 1..4 |-> from_card_id(rest_hands[seat + 1][k])]],
         !.draw_pile = <<>>,
         !.phase = "BIDDING_R2",
         !.bidding_r2_step = 0,
         !.bidding_r2_bids_by_pos = Zero4,
         !.bids_r2_by_seat = Zero4],
        <<"Manual deal complete. Bidding Round 2 starts.">>)

SubmitRestDealChecked(st, rest_hands, invalid) ==
    IF invalid # <<>> THEN ErrorReply(st, invalid)
    ELSE DeliverCaught(st, Adv(Ok(DealRest(st, rest_hands))),
                       rest_hands # DefaultRestDeal(st))

SUBMIT_REST_DEAL(st, rest_hands) ==
    IF st.phase # "MANUAL_DEAL_REST"
    THEN ErrorReply(st, <<"Not in MANUAL_DEAL_REST phase.">>)
    ELSE SubmitRestDealChecked(st, rest_hands, _validate_manual_rest_deal(st, rest_hands))

\* resolve_if_catch_complete and the bot advance after an applied action
AfterApplied(r) ==
    IF r.ok THEN Adv(Ok(resolve_if_catch_complete(r.st))) ELSE r

CHOOSE_REVEAL_TRUMP(st, seat, reveal) ==
    IF st.phase # "PLAY" THEN ErrorReply(st, <<"Not in PLAY phase.">>)
    ELSE DeliverCaught(st, AfterApplied(apply_reveal_choice(st, seat, reveal)),
                       reveal \/ compute_play_legal_actions(st).type # "REVEAL_CHOICE")

FirstLegalCardId(legal) == IF legal.cardIds = <<>> THEN <<>> ELSE legal.cardIds[1]

PLAY_CARD(st, seat, card_id) ==
    IF st.phase # "PLAY" THEN ErrorReply(st, <<"Not in PLAY phase.">>)
    ELSE DeliverCaught(st, AfterApplied(apply_play_card(st, seat, card_id)),
                       card_id # FirstLegalCardId(compute_play_legal_actions(st)))

UnknownType(st) == ErrorReply(st, <<"Unknown message type">>)

\* resolve_if_catch_complete after a bot's applied action
BotApplied(r) == IF r.ok THEN Ok(resolve_if_catch_complete(r.st)) ELSE r

\* bot_runner.py: one iteration of advance_bots_until_human with the action
\* the rollout chooser returned
BotReveals(st, actor, reveal) ==
    Deliver(BotApplied(apply_reveal_choice(st, actor, reveal)), reveal)

BotPlays(st, actor, card_id, legal) ==
    Deliver(BotApplied(apply_play_card(st, actor, card_id)), card_id # legal.cardIds[1])

Budget(dev) ==
    /\ dev => deviations < MaxDeviations
    /\ deviations' = IF dev THEN deviations + 1 ELSE deviations

Do(h) ==
    /\ Budget(h.dev)
    /\ state' = h.st
    /\ pc' = h.pc
    /\ frames' = h.frames
    /\ UNCHANGED <<games, settings, bot_sem, bot_loops>>

Connect ==
    /\ pc = "closed"
    /\ IF GameId \notin games
       THEN /\ frames' = ErrorFrames(<<"Game not found">>)
            /\ UNCHANGED <<games, state, pc, deviations, settings, bot_sem, bot_loops>>
       ELSE Do(Deliver(_advance_bots_until_human_any_phase(state), FALSE))

GetState == pc = "recv" /\ Do(GET_STATE(state))

SubmitBid(seat, bid_value) == pc = "recv" /\ Do(SUBMIT_BID(state, seat, bid_value))

SelectTrumpCard(seat, card_id) ==
    pc = "recv" /\ Do(SELECT_TRUMP_CARD(state, seat, card_id))

SubmitRestDeal(rest_hands) == pc = "recv" /\ Do(SUBMIT_REST_DEAL(state, rest_hands))

ChooseRevealTrump(seat, reveal) ==
    pc = "recv" /\ Do(CHOOSE_REVEAL_TRUMP(state, seat, reveal))

PlayCard(seat, card_id) == pc = "recv" /\ Do(PLAY_CARD(state, seat, card_id))

UnknownMessage == pc = "recv" /\ Do(UnknownType(state))

BotActs(actor, legal) ==
    IF legal.type = "NO_ACTION"
    THEN Do(Deliver(RaiseRuntime(state, <<"Bot has no legal action">>), FALSE))
    ELSE IF legal.type = "REVEAL_CHOICE"
    THEN \E reveal \in SeqToSet(legal.options) : Do(BotReveals(state, actor, reveal))
    ELSE \E card_id \in SeqToSet(legal.cardIds) :
             Do(BotPlays(state, actor, card_id, legal))

BotStep ==
    /\ pc = "bots"
    /\ bot_sem > 0
    /\ state.phase = "PLAY"
    /\ turn_index(state) \in BOT_SEATS
    /\ BotActs(turn_index(state), compute_play_legal_actions(state))

Next ==
    \/ Connect
    \/ GetState
    \/ \E seat \in SeatInputs(state, BiddingPhases) :
           \E bid_value \in BidInputs(state) : SubmitBid(seat, bid_value)
    \/ \E seat \in SeatInputs(state, TrumpSelectPhases) :
           \E card_id \in CardIdInputs(state, seat, TrumpSelectPhases) :
               SelectTrumpCard(seat, card_id)
    \/ \E rest_hands \in RestDealInputs(state) : SubmitRestDeal(rest_hands)
    \/ \E seat \in SeatInputs(state, {"PLAY"}) :
           \E reveal \in BOOLEAN : ChooseRevealTrump(seat, reveal)
    \/ \E seat \in SeatInputs(state, {"PLAY"}) :
           \E card_id \in CardIdInputs(state, seat, {"PLAY"}) : PlayCard(seat, card_id)
    \/ UnknownMessage
    \/ BotStep

Spec == Init /\ [][Next]_vars

(***************************************************************************)
(* routes.py: POST /games on the registry of game_manager                  *)
(***************************************************************************)
\* ids uuid4 may return; a new one is never among those in use
GameIds == {"g1", "g2", "g3"}

\* first4Hands bodies: the deals, and the first deal with a hand missing,
\* a hand of three, a card given twice, an id of unknown rank and an id
\* without separator
First4Inputs ==
    {Deals[k] : k \in 1..Len(Deals)}
    \cup {SubSeq(Deals[1], 1, 3),
          [Deals[1] EXCEPT ![2] = SubSeq(@, 1, 3)],
          [Deals[1] EXCEPT ![2][1] = Deals[1][1][1]],
          [Deals[1] EXCEPT ![3][2] = BadCardId],
          [Deals[1] EXCEPT ![3][2] = <<"HeartsJack">>]}

\* request bodies of POST /games
CreateRequests ==
    {[startingBidderIndex |-> i, first4Hands |-> h] : i \in -1..4, h \in First4Inputs}

\* from_card_id: the message of the ValueError it raises, <<>> when it returns
FromCardIdError(card_id) ==
    IF Len(card_id) # 2 THEN <<"Invalid cardId:", card_id>>
    ELSE IF card_id[1] \notin SeqToSet(SUITS) THEN <<"Invalid suit:", card_id[1]>>
    ELSE IF card_id[2] \notin SeqToSet(RANKS) THEN <<"Invalid rank:", card_id[2]>>
    ELSE <<>>

\* validate_first4_hands: the message of the ValueError it raises, <<>> when
\* it returns
First4Error(hands) ==
    LET flat == Flatten(hands)
        short == {i \in 1..Len(hands) : Len(hands[i]) # 4}
        bad == {k \in 1..Len(flat) : FromCardIdError(flat[k]) # <<>>}
    IN  IF Len(hands) # 4
        THEN <<"hands must be a list of 4 lists (one per player).">>
        ELSE IF short # {}
        THEN <<"Player", MinOf(short) - 1, "must have exactly 4 cards in first4.">>
        ELSE IF Len(flat) # 16 THEN <<"Total first4 cards must be 16.">>
        ELSE IF Cardinality(SeqToSet(flat)) # 16
        THEN <<"Duplicate cards found in first4 hands.">>
        ELSE IF bad # {} THEN FromCardIdError(flat[MinOf(bad)])
        ELSE <<>>

\* GameManager.create_game_manual_first4 up to the checks it makes: the
\* message of the ValueError raised, <<>> when the game gets built
CreateError(starting_bidder_index, first4_hands) ==
    IF starting_bidder_index < 0 \/ starting_bidder_index > 3
    THEN <<"startingBidderIndex must be in 0..3">>
    ELSE First4Error(first4_hands)

\* an HTTP response with the registry and the stored game the request leaves
Response(status, detail, registry, st) ==
    [status |-> status, detail |-> detail, games |-> registry, st |-> st]

\* the handler of POST /games once the body has passed CreateGameRequest
CreateGameHandler(req, registry, game_id, error) ==
    IF error # <<>>
    THEN Response(400, error, registry, <<>>)
    ELSE Response(200, <<>>, registry \cup {game_id},
                  <<[create_game_manual_first4(req.startingBidderIndex, req.first4Hands) EXCEPT !.game_id = game_id]>>)

\* POST /games: the body is validated against CreateGameRequest
\* (startingBidderIndex: Field(ge=0, le=3)) before the handler runs; a body
\* that fails is answered 422 with the validation errors by the framework
create_game(req, registry, game_id) ==
    IF req.startingBidderIndex < 0 \/ req.startingBidderIndex > 3
    THEN Response(422, <<"startingBidderIndex", "out of range">>, registry, <<>>)
    ELSE CreateGameHandler(req, registry, game_id,
                           CreateError(req.startingBidderIndex, req.first4Hands))

\* the process after start-up: no game registered, none stored
ApiInit ==
    /\ games = {}
    /\ state = <<>>
    /\ pc = "closed"
    /\ frames = <<>>
    /\ deviations = 0
    /\ settings = [max_concurrent_bot_thinking |-> max_concurrent_bot_thinking]
    /\ bot_sem = settings.max_concurrent_bot_thinking
    /\ bot_loops = [c \in Conns |-> Idle]

\* a POST /games request is served; state is the game stored last and frames
\* the response
PostGames(req, game_id) ==
    LET r == create_game(req, games, game_id)
    IN  /\ games' = r.games
        /\ state' = IF r.st = <<>> THEN state ELSE r.st[1]
        /\ frames' = <<[type |-> "HTTP", status |-> r.status, message |-> r.detail]>>
        /\ UNCHANGED <<pc, deviations, settings, bot_sem, bot_loops>>

ApiNext ==
    \E req \in CreateRequests : \E game_id \in GameIds \ games : PostGames(req, game_id)

ApiSpec == ApiInit /\ [][ApiNext]_vars

(***************************************************************************)
(* ws.py: the bidding helpers applied for whichever seat is to act, with   *)
(* every value of BidValues, from creation to the end of round 2           *)
(***************************************************************************)
\* the reply frames of an outcome r of a helper
OutcomeFrames(r) == IF r.ok THEN StateFrames ELSE ErrorFrames(r.msg)

\* _apply_r1_bid for the seat to act
BidR1(bid_value) ==
    /\ state.phase = "BIDDING_R1"
    /\ state' = _apply_r1_bid(state, turn_index(state), bid_value).st
    /\ frames' = OutcomeFrames(_apply_r1_bid(state, turn_index(state), bid_value))
    /\ UNCHANGED <<games, pc, deviations, settings, bot_sem, bot_loops>>

\* _apply_select_trump_card by the final bidder with the first card in hand
BidSelectTrump ==
    /\ state.phase \in TrumpSelectPhases
    /\ state' = _apply_select_trump_card(state, turn_index(state), to_card_id(state.players_cards[turn_index(state)][1])).st
    /\ frames' = StateFrames
    /\ UNCHANGED <<games, pc, deviations, settings, bot_sem, bot_loops>>

\* the rest deal of SUBMIT_REST_DEAL with the pile dealt in order
BidDealRest ==
    /\ state.phase = "MANUAL_DEAL_REST"
    /\ state' = DealRest(state, DefaultRestDeal(state))
    /\ frames' = StateFrames
    /\ UNCHANGED <<games, pc, deviations, settings, bot_sem, bot_loops>>

\* _apply_r2_bid for the seat to act
BidR2(bid_value) ==
    /\ state.phase = "BIDDING_R2"
    /\ state' = _apply_r2_bid(state, turn_index(state), bid_value).st
    /\ frames' = OutcomeFrames(_apply_r2_bid(state, turn_index(state), bid_value))
    /\ UNCHANGED <<games, pc, deviations, settings, bot_sem, bot_loops>>

\* the BIDDING_R1 branch of _advance_bots_until_human_any_phase, one turn
BidBotR1 ==
    /\ state.phase = "BIDDING_R1"
    /\ turn_index(state) \in BOT_SEATS
    /\ state' = _apply_r1_bid(state, turn_index(state), BotR1BidValue(state, turn_index(state))).st
    /\ frames' = OutcomeFrames(_apply_r1_bid(state, turn_index(state), BotR1BidValue(state, turn_index(state))))
    /\ UNCHANGED <<games, pc, deviations, settings, bot_sem, bot_loops>>

BidNext ==
    \/ \E bid_value \in BidValues : BidR1(bid_value)
    \/ BidBotR1
    \/ BidSelectTrump
    \/ BidDealRest
    \/ \E bid_value \in BidValues : BidR2(bid_value)

BidSpec == Init /\ [][BidNext]_vars

(***************************************************************************)
(* The bot semaphore of the process (main.py lifespan, bot_runner.py).     *)
(* Each connection serves a game of its own; the loops of all connections  *)
(* share app.state.bot_sem.  What a decision returns does not matter here, *)
(* so a run of the loop is reduced to the number of bot turns it makes.    *)
(***************************************************************************)
\* lifespan: bot_sem = asyncio.Semaphore(settings.max_concurrent_bot_thinking),
\* the setting being the default or the value of APP_MAX_CONCURRENT_BOT_THINKING
SemInit ==
    /\ games = {GameId}
    /\ state = create_game_manual_first4(0, Deals[1])
    /\ pc = "closed"
    /\ frames = <<>>
    /\ deviations = 0
    /\ settings \in {[max_concurrent_bot_thinking |-> n] : n \in {max_concurrent_bot_thinking, 2}}
    /\ bot_sem = settings.max_concurrent_bot_thinking
    /\ bot_loops = [c \in Conns |-> Idle]

\* advance_bots_until_human is called and finds a bot seat to act in PLAY
SemEnterLoop(c) ==
    /\ bot_loops[c].at = "idle"
    /\ \E n \in 1..MaxDecisions :
           bot_loops' = [bot_loops EXCEPT ![c] = [at |-> "acquire", left |-> n]]
    /\ UNCHANGED <<games, state, pc, frames, deviations, settings, bot_sem>>

\* entry of "async with bot_sem" without waiting for a permit
SemAcquire_NoWait(c) ==
    /\ bot_loops[c].at = "acquire"
    /\ bot_sem' = bot_sem - 1
    /\ bot_loops' = [bot_loops EXCEPT ![c].at = "deciding"]
    /\ UNCHANGED <<games, state, pc, frames, deviations, settings>>

\* entry of "async with bot_sem": waits while no permit is left, then takes
\* one; choose_action_with_rollouts_parallel starts
SemAcquire(c) ==
    /\ bot_loops[c].at = "acquire"
    /\ bot_sem > 0
    /\ bot_sem' = bot_sem - 1
    /\ bot_loops' = [bot_loops EXCEPT ![c].at = "deciding"]
    /\ UNCHANGED <<games, state, pc, frames, deviations, settings>>

\* choose_action_with_rollouts_parallel has gathered its workers' results
\* (or raised): exit of "async with bot_sem" gives the permit back
SemRelease(c) ==
    /\ bot_loops[c].at = "deciding"
    /\ bot_sem' = bot_sem + 1
    /\ bot_loops' = [bot_loops EXCEPT ![c].at = "apply"]
    /\ UNCHANGED <<games, state, pc, frames, deviations, settings>>

\* the chosen action is applied and the catch resolved; the while loop goes
\* round for the next bot turn or returns
SemApply(c) ==
    /\ bot_loops[c].at = "apply"
    /\ bot_loops' = [bot_loops EXCEPT ![c] = IF bot_loops[c].left > 1 THEN [at |-> "acquire", left |-> bot_loops[c].left - 1] ELSE Idle]
    /\ UNCHANGED <<games, state, pc, frames, deviations, settings, bot_sem>>

SemNext ==
    \E c \in Conns :
        \/ SemEnterLoop(c)
        \/ SemAcquire(c)
        \/ SemRelease(c)
        \/ SemApply(c)

SemSpec == SemInit /\ [][SemNext]_vars

TypeOK ==
    /\ pc \in {"closed", "recv", "bots"}
    /\ deviations \in 0..MaxDeviations
    /\ state.phase \in {"BIDDING_R1", "TRUMP_SELECT_R1", "MANUAL_DEAL_REST",
                        "BIDDING_R2", "TRUMP_SELECT_R2", "PLAY", "GAME_OVER"}

(***************************************************************************)
(* Properties                                                              *)
(***************************************************************************)
ActorPhases == BiddingPhases \cup TrumpSelectPhases \cup {"PLAY"}

\* the reply h is an ERROR frame, the state is as before the message and the
\* connection stays open
Rejected(st, h) == IsErrorReply(h.frames) /\ h.st = st /\ h.pc = "recv"

\* C1: in BIDDING_R1, BIDDING_R2, TRUMP_SELECT_R1/R2 and PLAY, a bid, trump
\* selection, reveal or card play submitted for a seat that is not the
\* current actor is rejected and the state after it equals the state before.
C1_WrongSeatRejected ==
    (pc = "recv" /\ state.phase \in ActorPhases) =>
        \A seat \in Seats \ {turn_index(state)} :
            /\ \A bid_value \in BidInputs(state) :
                   Rejected(state, SUBMIT_BID(state, seat, bid_value))
            /\ \A card_id \in CardIdInputs(state, seat, TrumpSelectPhases) :
                   Rejected(state, SELECT_TRUMP_CARD(state, seat, card_id))
            /\ \A reveal \in BOOLEAN :
                   Rejected(state, CHOOSE_REVEAL_TRUMP(state, seat, reveal))
            /\ \A card_id \in CardIdInputs(state, seat, {"PLAY"}) :
                   Rejected(state, PLAY_CARD(state, seat, card_id))

\* a play or reveal for the wrong seat was just rejected in the middle of a trick
C1_Witness ==
    /\ pc = "recv"
    /\ frames = ErrorFrames(<<"Not your turn.">>)
    /\ state.phase = "PLAY"
    /\ state.s # <<>>

ErrorKeepsState(st, h) == IsErrorReply(h.frames) => (h.st = st /\ h.pc = "recv")

\* C2: every message answered with ERROR (wrong phase, wrong turn, illegal
\* bid value, card not in hand, illegal card, invalid rest deal, unknown
\* type) leaves the whole state, event log included, identical, and the
\* connection stays open.
C2_ErrorLeavesStateUnchanged ==
    pc = "recv" =>
        /\ \A seat \in Seats :
               /\ \A bid_value \in BidInputs(state) :
                      ErrorKeepsState(state, SUBMIT_BID(state, seat, bid_value))
               /\ \A card_id \in CardIdInputs(state, seat, TrumpSelectPhases) :
                      ErrorKeepsState(state, SELECT_TRUMP_CARD(state, seat, card_id))
               /\ \A reveal \in BOOLEAN :
                      ErrorKeepsState(state, CHOOSE_REVEAL_TRUMP(state, seat, reveal))
               /\ \A card_id \in CardIdInputs(state, seat, {"PLAY"}) :
                      ErrorKeepsState(state, PLAY_CARD(state, seat, card_id))
        /\ \A rest_hands \in RestDealInputs(state) :
               ErrorKeepsState(state, SUBMIT_REST_DEAL(state, rest_hands))
        /\ ErrorKeepsState(state, UnknownType(state))

HoldsSuit(hand, suit) == \E i \in 1..Len(hand) : hand[i].suit = suit

\* what C3 asks of the outcome r of apply_play_card for seat and card_id
PlayOutcomeLegal(st, seat, card_id, r) ==
    IF r.ok
    THEN /\ compute_play_legal_actions(st).type = "PLAY_CARD"
         /\ card_id \in SeqToSet(compute_play_legal_actions(st).cardIds)
         /\ (st.s # <<>> /\ HoldsSuit(st.players_cards[seat], st.currentSuit))
                => card_id[1] = st.currentSuit
    ELSE r.st.players_cards = st.players_cards /\ r.st.s = st.s

\* C3: apply_play_card accepts a card only if its id is in the legal
\* play-card set of the state it is applied to; a seat that holds a card of
\* the led suit never has an off-suit card accepted; a rejected card leaves
\* all hands and the trick unchanged.
C3_OnlyLegalCardsAccepted ==
    state.phase = "PLAY" =>
        \A seat \in Seats :
            \A card_id \in CardIdInputs(state, seat, {"PLAY"}) :
                PlayOutcomeLegal(state, seat, card_id,
                                 apply_play_card(state, seat, card_id))

\* a follower that holds the led suit together with an off-suit card has
\* just had a card refused as illegal
C3_Witness ==
    /\ pc = "recv"
    /\ frames = ErrorFrames(<<"Illegal card.">>)
    /\ state.phase = "PLAY"
    /\ state.s # <<>>
    /\ HoldsSuit(state.players_cards[turn_index(state)], state.currentSuit)
    /\ \E i \in 1..Len(state.players_cards[turn_index(state)]) :
           state.players_cards[turn_index(state)][i].suit # state.currentSuit

BiddingTeamPoints(st) ==
    IF TeamOf(Val(st.final_bidder_seat)) = 1 THEN st.team1Points ELSE st.team2Points

\* C4: a game in PLAY reaches GAME_OVER exactly when the 8th trick has been
\* resolved (the trick counter reaches 9), never earlier; winnerTeam is the
\* bidding team iff its points are at least the final bid, else the other team.
C4_GameOverAfterEightTricks ==
    state.phase \in {"PLAY", "GAME_OVER"} =>
        /\ state.phase = "GAME_OVER" <=> state.catchNumber = 9
        /\ Len(state.team1Catches) + Len(state.team2Catches) = state.catchNumber - 1
        /\ state.phase = "PLAY" => IsNone(state.winnerTeam)
        /\ state.phase = "GAME_OVER" =>
               state.winnerTeam =
                   Some(IF BiddingTeamPoints(state) >= Val(state.final_bid_value)
                        THEN TeamOf(Val(state.final_bidder_seat))
                        ELSE OtherTeam(TeamOf(Val(state.final_bidder_seat))))

\* the game is over after eight tricks and the bidding team made its contract
C4_Witness ==
    /\ state.phase = "GAME_OVER"
    /\ Len(state.team1Catches) + Len(state.team2Catches) = 8
    /\ BiddingTeamPoints(state) >= Val(state.final_bid_value)
    /\ state.winnerTeam = Some(TeamOf(Val(state.final_bidder_seat)))

\* the step positions of round 1 that hold a non-pass bid
NonPassPositions(st) ==
    {p \in 0..(st.bidding_r1_step - 1) : st.bidding_r1_bids_by_pos[p] # 0}

R1WinnerIs(st, pos) ==
    /\ st.round1_bidder_seat = Some(st.bidding_order[pos])
    /\ st.round1_bid_value = Some(st.bidding_r1_bids_by_pos[pos])
    /\ \A p \in 0..3 : p # pos => st.bidding_r1_bids_by_pos[p] < st.bidding_r1_bids_by_pos[pos]
    /\ st.phase \in {"TRUMP_SELECT_R1", "MANUAL_DEAL_REST", "BIDDING_R2"} =>
           /\ st.final_bidder_seat = st.round1_bidder_seat
           /\ st.final_bid_value = st.round1_bid_value

\* C5: the non-pass bids of round 1 are strictly increasing in step order;
\* the winner is the seat at the last non-pass position, bidding_r1_final_pos,
\* it holds the unique highest bid, and round1_* and final_* are set to it.
C5_Round1BidsIncrease ==
    /\ \A p \in NonPassPositions(state) : \A q \in NonPassPositions(state) :
           p < q => state.bidding_r1_bids_by_pos[p] < state.bidding_r1_bids_by_pos[q]
    /\ NonPassPositions(state) # {} =>
           state.bidding_r1_final_pos = MaxOf(NonPassPositions(state))
    /\ state.bidding_r1_step < 4 => IsNone(state.round1_bidder_seat)
    /\ state.bidding_r1_step = 4 =>
           /\ NonPassPositions(state) # {}
           /\ R1WinnerIs(state, state.bidding_r1_final_pos)

\* round 1 is complete and at least two seats made a bid
C5_Witness ==
    /\ state.bidding_r1_step = 4
    /\ Cardinality(NonPassPositions(state)) >= 2
    /\ ~IsNone(state.round1_bidder_seat)

AllR2Pass(st) == \A p \in 0..3 : st.bidding_r2_bids_by_pos[p] = 0

MaxR2Bid(st) == MaxOf({st.bidding_r2_bids_by_pos[p] : p \in 0..3})

OnlySelector(st, bidder) ==
    /\ \A seat \in Seats \ {bidder} :
           \A card_id \in CardIdInputs(st, seat, TrumpSelectPhases) :
               ~_apply_select_trump_card(st, seat, card_id).ok
    /\ \E card_id \in CardIdInputs(st, bidder, TrumpSelectPhases) :
           _apply_select_trump_card(st, bidder, card_id).ok

\* what C6 asks of the state `after` left by the accepted 4th round-2 action
\* applied to `before`
R2Finalized(before, after) ==
    IF AllR2Pass(after)
    THEN /\ after.phase = "PLAY"
         /\ after.final_bidder_seat = before.round1_bidder_seat
         /\ after.final_bid_value = before.round1_bid_value
         /\ after.player_trump = before.player_trump
         /\ after.players_cards = before.players_cards
    ELSE /\ after.phase = "TRUMP_SELECT_R2"
         /\ after.final_bid_value = Some(MaxR2Bid(after))
         /\ after.bids_r2_by_seat[Val(after.final_bidder_seat)] = MaxR2Bid(after)
         /\ \A seat \in Seats \ {Val(after.final_bidder_seat)} :
                after.bids_r2_by_seat[seat] < MaxR2Bid(after)
         /\ after.players_cards =
                [before.players_cards EXCEPT ![Val(before.round1_bidder_seat)] =
                     Append(@, Val(before.player_trump))]
         /\ OnlySelector(after, Val(after.final_bidder_seat))

R2FinalizedIfAccepted(st, r) == r.ok => R2Finalized(st, r.st)

\* C6: when the 4th round-2 action is recorded: if all four passed, the
\* final bidder and value are the round-1 winner and value, the concealed
\* trump is unchanged and the phase is PLAY; otherwise the highest round-2
\* bidder is the final bidder at that value, the old concealed trump is back
\* in the round-1 bidder's hand, and the phase is TRUMP_SELECT_R2 with the
\* new bidder the only seat whose trump selection is accepted.
C6_Round2Finalization ==
    /\ (state.phase = "BIDDING_R2" /\ state.bidding_r2_step = 3) =>
           \A bid_value \in BidInputs(state) :
               R2FinalizedIfAccepted(
                   state, _apply_r2_bid(state, turn_index(state), bid_value))
    /\ state.phase \in {"TRUMP_SELECT_R2", "PLAY", "GAME_OVER"} =>
           IF AllR2Pass(state)
           THEN /\ state.phase # "TRUMP_SELECT_R2"
                /\ state.final_bidder_seat = state.round1_bidder_seat
                /\ state.final_bid_value = state.round1_bid_value
           ELSE /\ state.final_bid_value = Some(MaxR2Bid(state))
                /\ state.bids_r2_by_seat[Val(state.final_bidder_seat)] = MaxR2Bid(state)

\* round 2 ended with a raise: the new bidder is to select a trump and the
\* round-1 bidder holds the old trump card again
C6_Witness ==
    /\ state.phase = "TRUMP_SELECT_R2"
    /\ state.bidding_r2_step = 4
    /\ state.final_bid_value = Some(MaxR2Bid(state))
    /\ HasIdentity(state.players_cards[Val(state.round1_bidder_seat)],
                   Val(state.player_trump))

AllCardIds == {<<SUITS[i], RANKS[j]>> : i \in 1..Len(SUITS), j \in 1..Len(RANKS)}

DealtIds(st) ==
    Flatten([i \in 1..4 |-> HandIds(st.players_cards[i - 1])]) \o HandIds(st.draw_pile)

\* the in-place redeal the request is said to perform
RedealPerformed(st, h) ==
    /\ ~IsErrorReply(h.frames)
    /\ h.st.game_id = st.game_id
    /\ h.st.phase = "BIDDING_R1"
    /\ h.st.bidding_r1_step = 0
    /\ h.st.bidding_r1_bids_by_pos = Zero4
    /\ h.st.bids_r1_by_seat = Zero4
    /\ \A seat \in Seats : Len(h.st.players_cards[seat]) = 4
    /\ Len(h.st.draw_pile) = 16
    /\ SeqToSet(DealtIds(h.st)) = AllCardIds

\* C7: SUBMIT_BID with -1 is accepted exactly from the seat to act at step 0
\* of BIDDING_R1 whose 4-card hand has zero points; it redeals in place: same
\* game id, four fresh 4-card hands and a 16-card pile that are the full
\* deck, round-1 trackers reset, phase BIDDING_R1 at step 0.
C7_RedealRequestAccepted ==
    (pc = "recv" /\ state.phase = "BIDDING_R1") =>
        \A seat \in Seats :
            IF /\ seat = turn_index(state)
               /\ state.bidding_r1_step = 0
               /\ HandPoints(state.players_cards[seat]) = 0
            THEN RedealPerformed(state, SUBMIT_BID(state, seat, -1))
            ELSE Rejected(state, SUBMIT_BID(state, seat, -1))

\* C8: a bot that is first bidder with a zero-point hand requests a redeal;
\* no round-1 bid is ever recorded for a step-0 bot whose hand has zero points.
C8_BotRedealsZeroPointHand ==
    ~(/\ state.phase = "BIDDING_R1"
      /\ state.bidding_r1_step >= 1
      /\ state.bidding_order[0] \in BOT_SEATS
      /\ HandPoints(state.players_cards[state.bidding_order[0]]) = 0)

\* the cards a seat holds, the bidder's concealed trump included
EffectiveHand(st, seat) ==
    HandIds(st.players_cards[seat])
    \o (IF st.final_bidder_seat = Some(seat) /\ ~IsNone(st.player_trump)
        THEN <<to_card_id(Val(st.player_trump))>> ELSE <<>>)

RestDealt(st) ==
    /\ st.draw_pile = <<>>
    /\ \A seat \in Seats : Len(EffectiveHand(st, seat)) = 8

HasAllFourJacks(st) ==
    \E seat \in Seats :
        \A i \in 1..Len(SUITS) : <<SUITS[i], "Jack">> \in SeqToSet(EffectiveHand(st, seat))

Aborted(reason) ==
    /\ GameId \notin games
    /\ pc = "closed"
    /\ frames = <<Frame("GAME_ABORTED", <<reason>>)>>
    /\ state.phase # "BIDDING_R2"

\* C9: after an accepted SUBMIT_REST_DEAL, if a seat holds all four Jacks
\* (concealed trump counted for the bidder), the game is aborted with reason
\* ALL_FOUR_JACKS, removed from the registry, and never enters BIDDING_R2.
C9_AllFourJacksAborts ==
    (RestDealt(state) /\ HasAllFourJacks(state)) => Aborted("ALL_FOUR_JACKS")

\* the bidding team holds all 8 cards of the trump suit
AllTrumpsOneSide(st) ==
    /\ ~IsNone(st.player_trump)
    /\ ~IsNone(st.final_bidder_seat)
    /\ \A j \in 1..Len(RANKS) :
           <<Val(st.player_trump).suit, RANKS[j]>> \in
               SeqToSet(EffectiveHand(st, Val(st.final_bidder_seat)))
               \cup SeqToSet(EffectiveHand(st, _partner_seat(Val(st.final_bidder_seat))))

\* C10: after an accepted SUBMIT_REST_DEAL, if the bidding team holds all 8
\* cards of the trump suit (concealed trump counted), the game is aborted
\* with reason ALL_TRUMPS_ONE_SIDE, removed from the registry, and never
\* enters BIDDING_R2.
C10_AllTrumpsOneSideAborts ==
    (RestDealt(state) /\ AllTrumpsOneSide(state) /\ ~HasAllFourJacks(state))
        => Aborted("ALL_TRUMPS_ONE_SIDE")

\* C11: whenever a concealed trump card is set aside and the trump has not
\* been revealed (TRUMP_SELECT_R2 after a round-2 raise included), the card
\* belongs to the current final bidder and is in no seat's hand list.
C11_ConcealedTrumpSetAside ==
    (~IsNone(state.player_trump) /\ ~state.trumpReveal) =>
        /\ ~IsNone(state.final_bidder_seat)
        /\ state.phase = "PLAY" => state.finalBid - 1 = Val(state.final_bidder_seat)
        /\ \A seat \in Seats :
               ~HasIdentity(state.players_cards[seat], Val(state.player_trump))

\* restHands is 4 groups of 4 pairwise distinct ids that are the pile's ids
RestDealWellFormed(st, rest_hands) ==
    /\ Len(rest_hands) = 4
    /\ \A i \in 1..Len(rest_hands) : Len(rest_hands[i]) = 4
    /\ \A i \in 1..4 : \A j \in 1..4 : \A k \in 1..4 : \A l \in 1..4 :
           (i # j \/ k # l) => rest_hands[i][k] # rest_hands[j][l]
    /\ {rest_hands[i][k] : i \in 1..4, k \in 1..4}
           = {to_card_id(st.draw_pile[n]) : n \in 1..Len(st.draw_pile)}

RestDealApplied(st, rest_hands, h) ==
    /\ ~IsErrorReply(h.frames)
    /\ h.st.draw_pile = <<>>
    /\ \A seat \in Seats :
           /\ Len(h.st.players_cards[seat]) = Len(st.players_cards[seat]) + 4
           /\ HandIds(h.st.players_cards[seat])
                  = HandIds(st.players_cards[seat]) \o rest_hands[seat + 1]

RestDealRefused(st, h) ==
    /\ IsErrorReply(h.frames)
    /\ h.st.players_cards = st.players_cards
    /\ h.st.draw_pile = st.draw_pile
    /\ h.st.phase = st.phase

RestDealOutcome(st, rest_hands, h) ==
    IF RestDealWellFormed(st, rest_hands)
    THEN RestDealApplied(st, rest_hands, h)
    ELSE RestDealRefused(st, h)

\* C12: SUBMIT_REST_DEAL in MANUAL_DEAL_REST is accepted iff restHands has
\* exactly 4 groups of exactly 4 ids, the 16 ids are pairwise distinct and
\* their set is the set of ids in the draw pile; accepted, every hand grows
\* by exactly its 4 named cards and the pile becomes empty; rejected, no
\* hand, the pile and the phase are unchanged.
C12_RestDealAllOrNothing ==
    (pc = "recv" /\ state.phase = "MANUAL_DEAL_REST") =>
        \A rest_hands \in RestDealInputs(state) :
            RestDealOutcome(state, rest_hands, SUBMIT_REST_DEAL(state, rest_hands))

\* a rest deal was just accepted: the pile is empty, every seat holds its
\* eight cards (the bidder seven and the concealed trump), round 2 has begun
C12_Witness ==
    /\ pc = "recv"
    /\ frames = StateFrames
    /\ state.phase = "BIDDING_R2"
    /\ state.bidding_r2_step <= 1
    /\ state.draw_pile = <<>>
    /\ \A seat \in Seats :
           Len(state.players_cards[seat])
               = IF state.final_bidder_seat = Some(seat) THEN 7 ELSE 8

\* the frames a step sent answer an accepted action: the state pair once the
\* bots have been advanced, never an ERROR
AnsweredWithState ==
    /\ ~IsErrorReply(frames')
    /\ pc' = "recv" => frames' = StateFrames
    /\ pc' = "bots" => frames' = <<>>

\* C13: on one connection, every message whose action changed the game state
\* is answered by exactly one STATE_UPDATE followed by exactly one
\* LEGAL_ACTIONS, sent after all resulting bot auto-advance, and never by an
\* ERROR; the same pair is sent once right after connecting.
C13_AcceptedAnsweredWithStatePair ==
    [][/\ (state' # state \/ pc = "closed") => AnsweredWithState
       /\ (pc = "bots" /\ pc' # "bots") => (pc' = "recv" /\ frames' = StateFrames)]_vars

\* no bot seat is the one to act
HumanToActOrNone(st) ==
    \/ st.phase \in {"MANUAL_DEAL_REST", "GAME_OVER"}
    \/ turn_index(st) \in Seats \ BOT_SEATS

\* what is left to do in PLAY: two per card still held or set aside (a
\* revealed trump card is in the bidder's hand), one for the reveal decision
\* of the trick while it is open
PlayMeasure(st) ==
    2 * (SumSeq([i \in 1..4 |-> Len(st.players_cards[i - 1])])
         + (IF IsNone(st.player_trump) \/ st.trumpReveal THEN 0 ELSE 1))
    + (IF st.chose THEN 0 ELSE 1)

\* a bot action leaves the advance running or hands over to a human, and
\* brings the end of play nearer
BotActionProgresses(st, h) ==
    /\ h.pc \in {"bots", "recv"}
    /\ PlayMeasure(h.st) < PlayMeasure(st)
    /\ PlayMeasure(h.st) >= 0

AllBotActionsProgress(st, actor, legal) ==
    /\ st.phase = "PLAY"
    /\ actor \in BOT_SEATS
    /\ legal.type \in {"REVEAL_CHOICE", "PLAY_CARD"}
    /\ legal.type = "REVEAL_CHOICE" =>
           /\ legal.options # <<>>
           /\ \A reveal \in SeqToSet(legal.options) :
                  BotActionProgresses(st, BotReveals(st, actor, reveal))
    /\ legal.type = "PLAY_CARD" =>
           /\ legal.cardIds # <<>>
           /\ \A card_id \in SeqToSet(legal.cardIds) :
                  BotActionProgresses(st, BotPlays(st, actor, card_id, legal))

InFlight == {c \in Conns : bot_loops[c].at = "deciding"}

\* C15: at every moment the number of bot decisions in flight is at most the
\* configured max_concurrent_bot_thinking, the permits left being the
\* difference; with the default 1, while one decision is outstanding no
\* permit is left, so no other connection's decision can start
C15_BotDecisionsBounded ==
    /\ Cardinality(InFlight) <= settings.max_concurrent_bot_thinking
    /\ bot_sem = settings.max_concurrent_bot_thinking - Cardinality(InFlight)
    /\ (settings.max_concurrent_bot_thinking = 1 /\ InFlight # {}) =>
           /\ bot_sem = 0
           /\ \A c \in Conns : ~ENABLED SemAcquire(c)

\* with the default limit one connection is deciding while another waits at
\* the semaphore
C15_Witness ==
    /\ settings.max_concurrent_bot_thinking = max_concurrent_bot_thinking
    /\ \E c, d \in Conns :
           /\ c # d
           /\ bot_loops[c].at = "deciding"
           /\ bot_loops[d].at = "acquire"


\* st with the card c concealed instead of the one it conceals, the (hidden)
\* trump suit following the card where it is set
Reconcealed(st, c) ==
    [st EXCEPT !.player_trump = Some(c),
               !.trumpSuit = IF IsNone(st.trumpSuit) THEN None ELSE Some(c.suit)]

\* C16: while the trump is not revealed the public view has trumpSuit null,
\* and it is the same view whichever card of the deck is the concealed one:
\* no field of it depends on the concealed card's identity
C16_PublicViewHidesTrump ==
    ~state.trumpReveal =>
        /\ IsNone(to_public_dict(state).play.trumpSuit)
        /\ ~IsNone(state.player_trump) =>
               \A i \in 1..Len(packOf28) :
                   to_public_dict(Reconcealed(state, packOf28[i])) = to_public_dict(state)

\* a trick is under way in PLAY with the trump card concealed and its suit set
C16_Witness ==
    /\ pc = "recv"
    /\ state.phase = "PLAY"
    /\ ~state.trumpReveal
    /\ ~IsNone(state.player_trump)
    /\ state.trumpSuit = Some(Val(state.player_trump).suit)
    /\ Len(state.s) > 0
    /\ to_public_dict(state).hasConcealedTrump


\* after the reply r of apply_reveal_choice to st the trick and the seat to
\* act are those of st and that seat has a card to play
RevealKeepsTurn(st, r) ==
    /\ r.ok
    /\ r.st.phase = "PLAY"
    /\ r.st.s = st.s
    /\ r.st.leaderIndex = st.leaderIndex
    /\ turn_index(r.st) = turn_index(st)
    /\ compute_play_legal_actions(r.st).type = "PLAY_CARD"
    /\ compute_play_legal_actions(r.st).seatIndex = turn_index(st)
    /\ compute_play_legal_actions(r.st).cardIds # <<>>

\* C17: in PLAY, a reveal choice of the current actor, with reveal TRUE or
\* FALSE and whether or not the choice was on offer, leaves the cards of the
\* trick in progress and the current actor as they were, and the next legal
\* action is that seat's card play
C17_RevealChoiceKeepsTurn ==
    state.phase = "PLAY" =>
        \A reveal \in BOOLEAN :
            RevealKeepsTurn(state, apply_reveal_choice(state, turn_index(state), reveal))

\* a human seat faces the reveal choice with a trick in progress
C17_Witness ==
    /\ pc = "recv"
    /\ state.phase = "PLAY"
    /\ compute_play_legal_actions(state).type = "REVEAL_CHOICE"
    /\ Len(state.s) > 0
    /\ ~IsNone(state.player_trump)


\* the requests POST /games must refuse
InvalidRequests ==
    {req \in CreateRequests : CreateError(req.startingBidderIndex, req.first4Hands) # <<>>}

\* the request is answered 400 with the failure's message and the registry
\* is as before
RefusedWith400(req, r) ==
    /\ r.status = 400
    /\ r.detail = CreateError(req.startingBidderIndex, req.first4Hands)
    /\ r.games = games

\* C18: every request with a startingBidderIndex outside 0..3, a number of
\* hands other than 4, a hand not of size 4, a duplicate card id or an id that
\* does not decode is answered 400 with the failure's message, and no game is
\* added to the registry
C18_InvalidCreationIs400 ==
    \A req \in InvalidRequests : \A game_id \in GameIds \ games :
        RefusedWith400(req, create_game(req, games, game_id))


\* the identities of the cards of a list of Cards
IdentitiesOf(cards) == {identity(cards[k]) : k \in 1..Len(cards)}

\* st is the game a valid request req must create
CreatedAsRequested(req, st) ==
    /\ st.phase = "BIDDING_R1"
    /\ st.bidding_r1_step = 0
    /\ turn_index(st) = req.startingBidderIndex
    /\ st.starting_bidder_index = req.startingBidderIndex
    /\ \A i \in 0..3 : st.bidding_order[i] = (req.startingBidderIndex + i) % 4
    /\ \A seat \in Seats : HandIds(st.players_cards[seat]) = req.first4Hands[seat + 1]
    /\ Len(st.draw_pile) = 16
    /\ IdentitiesOf(st.draw_pile) =
           IdentitiesOf(packOf28)
               \ UNION {IdentitiesOf(st.players_cards[seat]) : seat \in Seats}

\* C19: every valid creation request is answered 200 and stores, under the
\* new id, a game in BIDDING_R1 at step 0 whose turnIndex is the
\* startingBidderIndex, whose bidding order is the rotation of the four seats
\* from that index, whose hands are the given cards and whose draw pile is
\* the 16 cards of the deck that are in no hand
C19_CreatedGameAsRequested ==
    \A req \in CreateRequests \ InvalidRequests : \A game_id \in GameIds \ games :
        /\ create_game(req, games, game_id).status = 200
        /\ create_game(req, games, game_id).games = games \cup {game_id}
        /\ CreatedAsRequested(req, create_game(req, games, game_id).st[1])

\* a game created with starting bidder 3 has just been stored next to another
C19_Witness ==
    /\ frames # <<>>
    /\ frames[1].status = 200
    /\ Cardinality(games) = 2
    /\ state.game_id \in games
    /\ state.starting_bidder_index = 3
    /\ turn_index(state) = 3
    /\ state.bidding_order[1] = 0


\* the cells (row, seat) of the suit matrix of st that are 0
VoidCells(st) ==
    IF IsNone(st.suit_matrix) THEN {}
    ELSE {cell \in (0..3) \X (0..3) : Val(st.suit_matrix)[cell[1]][cell[2]] = 0}

\* C20: once init_play_state has set the suit matrix, in every step up to
\* GAME_OVER and after, whether a reveal choice, a card play with its trick
\* resolution or a bot's turn, the matrix stays set and every cell that is 0
\* is still 0: a cell never goes back to 1
C20_VoidCellsStayVoid ==
    [][~IsNone(state.suit_matrix) =>
           /\ ~IsNone(state'.suit_matrix)
           /\ state'.phase \in {"PLAY", "GAME_OVER"}
           /\ VoidCells(state) \subseteq VoidCells(state')]_vars

\* the game is over and a seat inferred void during play is still marked so,
\* with at least two cells marked
C20_Witness ==
    /\ state.phase = "GAME_OVER"
    /\ Cardinality(VoidCells(state)) >= 2


\* the suit matrix an accepted play of card_id by the seat to act must leave
MatrixAfterPlay(st, seat, card_id) ==
    IF Len(st.s) > 0 /\ from_card_id(card_id).suit # st.currentSuit
    THEN [Val(st.suit_matrix) EXCEPT ![SUIT_MATRIX_INDEX(st.currentSuit)][seat] = 0]
    ELSE Val(st.suit_matrix)

\* the legal card ids of the seat to act that do not follow the led suit
OffSuitIds(st) ==
    {cid \in SeqToSet(compute_play_legal_actions(st).cardIds) :
        Len(st.s) > 0 /\ from_card_id(cid).suit # st.currentSuit}

\* C21: in PLAY, every legal card play of the seat to act is accepted and
\* leaves the suit matrix as it was, except that the play of a non-leader
\* whose card is not of the led suit sets the cell (led suit, that seat) to 0
\* and no other; a reveal choice leaves the whole matrix as it was
C21_VoidInferenceFrame ==
    state.phase = "PLAY" =>
        /\ \A card_id \in SeqToSet(compute_play_legal_actions(state).cardIds) :
               /\ apply_play_card(state, turn_index(state), card_id).ok
               /\ apply_play_card(state, turn_index(state), card_id).st.suit_matrix
                      = Some(MatrixAfterPlay(state, turn_index(state), card_id))
        /\ \A reveal \in BOOLEAN :
               apply_reveal_choice(state, turn_index(state), reveal).st.suit_matrix
                   = state.suit_matrix

\* a seat that is not the leader can play off the led suit while its cell for
\* that suit is still allowed and another cell is already void
C21_Witness ==
    /\ state.phase = "PLAY"
    /\ OffSuitIds(state) # {}
    /\ Val(state.suit_matrix)[SUIT_MATRIX_INDEX(state.currentSuit)][turn_index(state)] = 1
    /\ VoidCells(state) # {}


\* the card ids of the four hands, the draw pile, the trick in progress, the
\* two teams' trick piles and the concealed trump card, one entry per card held
CardsHeld(st) ==
    DealtIds(st)
    \o HandIds(st.s)
    \o Flatten([k \in 1..Len(st.team1Catches) |-> HandIds(st.team1Catches[k])])
    \o Flatten([k \in 1..Len(st.team2Catches) |-> HandIds(st.team2Catches[k])])
    \o (IF ~IsNone(st.player_trump) /\ ~st.trumpReveal
        THEN <<to_card_id(Val(st.player_trump))>> ELSE <<>>)

\* C22: in every reachable state the hands, the draw pile, the trick in
\* progress, the teams' trick piles and the concealed trump card hold each of
\* the 32 deck cards exactly once
C22_CardsConserved ==
    /\ Len(CardsHeld(state)) = 32
    /\ SeqToSet(CardsHeld(state)) = AllCardIds


\* the values tried against the validators
TriedBids == -3..30

\* the floor of the round-1 turn at st, as the rules of the game give it
R1Floor(st) ==
    IF st.bidding_r1_step = 0 THEN 13
    ELSE IF st.bidding_r1_step = 1 THEN st.bidding_r1_bids_by_pos[0]
    ELSE IF st.bidding_r1_step = 2
    THEN IF ~st.bidding_r1_passes_by_pos[1] THEN st.bidding_r1_bids_by_pos[1]
         ELSE Max2(st.bidding_r1_bids_by_pos[0], 19)
    ELSE IF st.bidding_r1_final_pos = 1
    THEN Max2(st.bidding_r1_bids_by_pos[st.bidding_r1_final_pos], 19)
    ELSE st.bidding_r1_bids_by_pos[st.bidding_r1_final_pos]

\* the values the round-1 turn at st must accept
R1Acceptable(st) ==
    {v \in TriedBids : R1Floor(st) < v /\ v <= 23}
    \cup (IF st.bidding_r1_step >= 1 THEN {0} ELSE {})
    \cup (IF st.bidding_r1_step = 0 /\ HandPoints(st.players_cards[turn_index(st)]) = 0
          THEN {-1} ELSE {})

\* C23: at every round-1 turn the values validate_r1_bid_value accepts under
\* compute_r1_turn_rules are the bids above the floor up to 23, 0 from step 1
\* on, and -1 at step 0 for a zero-point hand, the floor being 13 at step 0,
\* the step-0 bid at step 1, at step 2 the step-1 bid unless step 1 passed and
\* then max(step-0 bid, 19), at step 3 the leading bid, raised to 19 at least
\* when the leading position is 1
C23_Round1AcceptedValues ==
    state.phase = "BIDDING_R1" =>
        {v \in TriedBids : validate_r1_bid_value(R1Rules(state), v) = <<>>}
            = R1Acceptable(state)

\* step 3 with the step-1 seat leading below 19: the floor is 19, not its bid
C23_Witness ==
    /\ state.phase = "BIDDING_R1"
    /\ state.bidding_r1_step = 3
    /\ state.bidding_r1_final_pos = 1
    /\ state.bidding_r1_bids_by_pos[1] < 19
    /\ state.bidding_r1_passes_by_pos[2]
    /\ frames = StateFrames


\* the non-zero bids recorded in round 2, by position
R2BidPositions(st) == {p \in 0..3 : st.bidding_r2_bids_by_pos[p] # 0}

\* the floor of a round-2 turn: the highest bid recorded so far, 23 if none
R2Floor(st) ==
    IF R2BidPositions(st) = {} THEN 23
    ELSE MaxOf({st.bidding_r2_bids_by_pos[p] : p \in R2BidPositions(st)})

\* C24: at every round-2 turn compute_r2_turn_rules gives the seat to act,
\* ceiling 28, the highest non-zero bid so far or else 23 as floor, pass
\* allowed and redeal not; validate_r2_bid_value accepts exactly 0 and the
\* values above the floor up to 28; so the bids recorded in round 2 lie in
\* 24..28 and increase strictly with the position
C24_Round2Rules ==
    /\ state.phase = "BIDDING_R2" =>
           /\ R2Rules(state) = BidTurnRules(turn_index(state), R2Floor(state), 28, TRUE, FALSE)
           /\ {v \in TriedBids : validate_r2_bid_value(R2Rules(state), v) = <<>>}
                  = {0} \cup {v \in TriedBids : R2Floor(state) < v /\ v <= 28}
    /\ \A p \in R2BidPositions(state) :
           /\ state.bidding_r2_bids_by_pos[p] \in 24..28
           /\ \A q \in R2BidPositions(state) :
                  q < p => state.bidding_r2_bids_by_pos[q] < state.bidding_r2_bids_by_pos[p]

\* a round-2 turn after a bid and then a pass: the floor is the bid, not 23
C24_Witness ==
    /\ state.phase = "BIDDING_R2"
    /\ state.bidding_r2_step = 2
    /\ state.bidding_r2_bids_by_pos[0] = 24
    /\ state.bidding_r2_bids_by_pos[1] = 0
    /\ R2Rules(state).min_bid_exclusive = 24


\* the bid planned from the first four cards of the seat
PlannedBid(st, seat) == plan_bid_and_trump_from_first4(HandIds(st.players_cards[seat])).bid

\* the partner of the seat is a bot and holds the highest round-1 bid
PartnerBotLeads(st, seat) ==
    /\ _current_highest_r1(st).max_seat = Some(_partner_seat(seat))
    /\ _partner_seat(seat) \in BOT_SEATS

\* v is what the bot seat to act may submit at st
BotBidLegal(st, seat, v) ==
    /\ validate_r1_bid_value(R1Rules(st), v) = <<>>
    /\ v # -1
    /\ _apply_r1_bid(st, seat, v).ok
    /\ PartnerBotLeads(st, seat) => v = 0
    /\ (~R1Rules(st).can_pass
          /\ (PlannedBid(st, seat) <= R1Rules(st).min_bid_exclusive
              \/ PlannedBid(st, seat) > R1Rules(st).max_bid_inclusive))
           => v = Max2(R1Rules(st).min_bid_exclusive + 1, 14)

\* C25: whenever a bot seat is to bid in round 1, the value it submits passes
\* validate_r1_bid_value under the turn's rules and is recorded; it is a pass
\* when its partner, a bot, holds the highest bid; and when it may not pass
\* and its planned bid does not fit, it is max(floor + 1, 14)
C25_BotRound1BidLegal ==
    (state.phase = "BIDDING_R1" /\ turn_index(state) \in BOT_SEATS) =>
        BotBidLegal(state, turn_index(state), BotR1BidValue(state, turn_index(state)))

\* a bot is to bid whose partner bot leads with less than the bot planned
C25_Witness ==
    /\ state.phase = "BIDDING_R1"
    /\ turn_index(state) \in BOT_SEATS
    /\ PartnerBotLeads(state, turn_index(state))
    /\ PlannedBid(state, turn_index(state)) > _current_highest_r1(state).max_bid
    /\ BotR1BidValue(state, turn_index(state)) = 0


\* C26: in every reachable state the round-2 bids of the bot seats 0 and 2
\* are 0, by seat and by position; so the seat that raised in round 2 and
\* must select the trump in TRUMP_SELECT_R2 is a human seat
C26_BotsPassRound2 ==
    /\ \A seat \in BOT_SEATS : state.bids_r2_by_seat[seat] = 0
    /\ \A p \in 0..3 :
           state.bidding_order[p] \in BOT_SEATS => state.bidding_r2_bids_by_pos[p] = 0
    /\ state.phase = "TRUMP_SELECT_R2" =>
           /\ ~IsNone(state.final_bidder_seat)
           /\ Val(state.final_bidder_seat) \notin BOT_SEATS
           /\ turn_index(state) \notin BOT_SEATS
           /\ state.bids_r2_by_seat[Val(state.final_bidder_seat)] = Val(state.final_bid_value)

\* round 2 is over, both bots have had their turn after a human raised, and
\* the human is to select the new trump
C26_Witness ==
    /\ pc = "recv"
    /\ state.phase = "TRUMP_SELECT_R2"
    /\ state.bidding_r2_step = 4
    /\ state.bidding_r2_bids_by_pos[0] # 0
    /\ state.bidding_order[0] \notin BOT_SEATS


\* the play fields as init_play_state must leave them at the start of trick 1
PlayStartFields(st) ==
    /\ st.leaderIndex = st.starting_bidder_index
    /\ st.catchNumber = 1
    /\ st.team1Points = 0 /\ st.team2Points = 0
    /\ st.team1Catches = <<>> /\ st.team2Catches = <<>>
    /\ st.s = <<>> /\ st.currentSuit = ""
    /\ st.trumpReveal = FALSE
    /\ st.suit_matrix = Some(Ones4x4)

\* init_play_state applied to st: a RuntimeError that leaves st as it was when
\* the final bidder or the final bid value is unset, the start of trick 1
\* otherwise
InitPlayOutcome(st) ==
    LET r == init_play_state(st) IN
    IF IsNone(st.final_bidder_seat) \/ IsNone(st.final_bid_value)
    THEN ~r.ok /\ r.exc = "RuntimeError" /\ r.st = st
    ELSE r.ok /\ PlayStartFields(r.st)

\* C27: init_play_state raises an internal error and leaves the state as it
\* was when the final bidder or the final bid value is unset; otherwise it
\* sets the leader of trick 1 to the starting bidder, the trick counter to 1,
\* both teams' points to 0 and piles to empty, the trick in progress to empty,
\* the trump to unrevealed and every suit-void cell to 1; and every state in
\* PLAY in which no card has been played and no reveal choice made yet has
\* those values.
C27_InitPlayState ==
    /\ InitPlayOutcome(state)
    /\ (state.phase = "PLAY" /\ state.catchNumber = 1 /\ state.s = <<>> /\ ~state.chose) => PlayStartFields(state)

C27_Witness ==
    /\ pc = "recv"
    /\ state.phase = "PLAY" /\ state.catchNumber = 1 /\ state.s = <<>> /\ ~state.chose
    /\ ~IsNone(state.final_bidder_seat)
    /\ Val(state.final_bidder_seat) # state.starting_bidder_index
    /\ state.leaderIndex = state.starting_bidder_index


\* the states apply_play_card hands to resolve_if_catch_complete when the
\* seat to act completes the catch of st with one of its legal cards
FullTricks(st) ==
    IF st.phase # "PLAY" \/ Len(st.s) # 3 THEN {}
    ELSE LET legal == compute_play_legal_actions(st)
             actor == current_actor_index(st.leaderIndex, Len(st.s))
         IN  IF legal.type # "PLAY_CARD" THEN {}
             ELSE {apply_play_card(st, actor, legal.cardIds[i]).st : i \in 1..Len(legal.cardIds)}

\* post is pre with its complete catch scored for the team of the seat that
\* leads next
CatchScored(pre, post) ==
    LET winner_team == TeamOf(post.leaderIndex)
        points == HandPoints(pre.s)
    IN  /\ post.team1Points = pre.team1Points + (IF winner_team = 1 THEN points ELSE 0)
        /\ post.team2Points = pre.team2Points + (IF winner_team = 2 THEN points ELSE 0)
        /\ post.team1Catches = IF winner_team = 1 THEN Append(pre.team1Catches, pre.s) ELSE pre.team1Catches
        /\ post.team2Catches = IF winner_team = 2 THEN Append(pre.team2Catches, pre.s) ELSE pre.team2Catches
        /\ post.s = <<>> /\ post.currentSuit = ""
        /\ post.leaderIndex \in 0..3
        /\ post.catchNumber = pre.catchNumber + 1

PilePoints(catches) == SumSeq([i \in 1..Len(catches) |-> HandPoints(catches[i])])

\* C28: resolve_if_catch_complete returns the state as it was unless the catch
\* in progress holds exactly 4 cards; on every state with a complete catch
\* that a legal play produces, the points and the pile of the winning seat's
\* team (by seat parity) grow by the catch and its point sum, the other
\* team's stay, the catch in progress and the led suit are cleared, the
\* winning seat leads and the catch counter grows by 1; so in every state the
\* teams' points are the point sums of their piles and the piles hold one
\* catch less than the counter.
C28_ResolveCatch ==
    /\ Len(state.s) # 4 => resolve_if_catch_complete(state) = state
    /\ \A pre \in FullTricks(state) :
           Len(pre.s) = 4 /\ CatchScored(pre, resolve_if_catch_complete(pre))
    /\ state.phase \in {"PLAY", "GAME_OVER"} =>
           /\ state.team1Points = PilePoints(state.team1Catches)
           /\ state.team2Points = PilePoints(state.team2Catches)
           /\ Len(state.team1Catches) + Len(state.team2Catches) = state.catchNumber - 1
           /\ Len(state.s) < 4

C28_Witness ==
    /\ pc = "recv" /\ state.phase = "PLAY" /\ Len(state.s) = 3
    /\ state.team1Catches # <<>> /\ state.team2Catches # <<>>
    /\ \E pre \in FullTricks(state) :
           /\ HandPoints(pre.s) > 0
           /\ TeamOf(resolve_if_catch_complete(pre).leaderIndex) # TeamOf(pre.leaderIndex)


(***************************************************************************)
(* rollout_bot.py: the chooser of the bot's action in PLAY                 *)
(***************************************************************************)
WorkerResult(kind, dump, reveal, ident) ==
    [kind |-> kind, dump |-> dump, reveal |-> reveal, ident |-> ident]

\* what gathering the workers can give for the turn of bot_seat in st: a
\* worker raised ("crash", with or without a crash dump path in the message),
\* the merged tally is empty, or its most common key is a bool, the identity
\* string of a card (of the seat's hand, the concealed trump, the catch in
\* progress) or a key of another type
WorkerResults(st, bot_seat) ==
    LET cards == SeqToSet(st.players_cards[bot_seat]) \cup SeqToSet(st.s)
                 \cup (IF IsNone(st.player_trump) THEN {} ELSE {Val(st.player_trump)})
    IN  {WorkerResult("crash", dump, FALSE, <<>>) : dump \in BOOLEAN}
        \cup {WorkerResult("empty", FALSE, FALSE, <<>>), WorkerResult("other", FALSE, FALSE, <<>>)}
        \cup {WorkerResult("bool", FALSE, reveal, <<>>) : reveal \in BOOLEAN}
        \cup {WorkerResult("str", FALSE, FALSE, identity(c)) : c \in cards}

RevealAction(bot_seat, reveal) ==
    [type |-> "REVEAL", seatIndex |-> bot_seat, reveal |-> reveal, cardId |-> <<>>]

PlayAction(bot_seat, card_id) ==
    [type |-> "PLAY", seatIndex |-> bot_seat, reveal |-> FALSE, cardId |-> card_id]

\* the chooser returns action and leaves st behind
Returned(st, action) == [ok |-> TRUE, exc |-> "", st |-> st, action |-> action]

\* the chooser raises exc and returns no action
ChooserRaises(st, exc) == [ok |-> FALSE, exc |-> exc, st |-> st, action |-> <<>>]

\* reveal False for a reveal choice, else legal.cardIds[0]
DefaultAction(st, bot_seat, legal) ==
    IF legal.type = "REVEAL_CHOICE" THEN Returned(st, RevealAction(bot_seat, FALSE))
    ELSE IF legal.cardIds = <<>> THEN ChooserRaises(st, "IndexError")
    ELSE Returned(st, PlayAction(bot_seat, legal.cardIds[1]))

\* the card id of the first legal card with the voted identity, else the
\* first legal card id
VotedCard(st, bot_seat, legal, ident) ==
    LET match == {i \in 1..Len(legal.cardIds) : identity(from_card_id(legal.cardIds[i])) = ident}
    IN  Returned(st, PlayAction(bot_seat, legal.cardIds[IF match = {} THEN 1 ELSE MinOf(match)]))

ChooseFrom(st, bot_seat, legal, results) ==
    IF legal.type = "NO_ACTION" THEN ChooserRaises(st, "RuntimeError")
    ELSE IF results.kind = "crash"
         THEN DefaultAction(IF results.dump THEN Log(st, <<"BOT CRASH DUMP:", "dump_path">>) ELSE st,
                            bot_seat, legal)
    ELSE IF results.kind = "empty" THEN DefaultAction(st, bot_seat, legal)
    ELSE IF results.kind = "bool" THEN Returned(st, RevealAction(bot_seat, results.reveal))
    ELSE IF results.kind = "str"
         THEN IF legal.type # "PLAY_CARD" \/ legal.cardIds = <<>>
              THEN Returned(st, RevealAction(bot_seat, FALSE))
              ELSE VotedCard(st, bot_seat, legal, results.ident)
    ELSE DefaultAction(st, bot_seat, legal)

choose_action_with_rollouts_parallel(st, bot_seat, results) ==
    ChooseFrom(st, bot_seat, compute_play_legal_actions(st), results)


\* the action is one the seat to act may take in the state legal describes
ActionLegal(action, legal) ==
    /\ action.type = "REVEAL" => legal.type = "REVEAL_CHOICE"
    /\ action.type = "PLAY" => legal.type = "PLAY_CARD" /\ action.cardId \in SeqToSet(legal.cardIds)

\* the workers gave nothing usable for the action legal expects
NothingUsable(results, legal) ==
    \/ results.kind \in {"crash", "empty", "other"}
    \/ results.kind = "bool" /\ legal.type # "REVEAL_CHOICE"
    \/ results.kind = "str" /\ legal.type # "PLAY_CARD"
    \/ results.kind = "str" /\ \A i \in 1..Len(legal.cardIds) : identity(from_card_id(legal.cardIds[i])) # results.ident

IsDefaultAction(action, bot_seat, legal) ==
    IF legal.type = "REVEAL_CHOICE" THEN action = RevealAction(bot_seat, FALSE)
    ELSE legal.cardIds # <<>> /\ action = PlayAction(bot_seat, legal.cardIds[1])

ChooserSound(st, bot_seat, results) ==
    LET legal == compute_play_legal_actions(st)
        r == choose_action_with_rollouts_parallel(st, bot_seat, results)
    IN  /\ r.ok
        /\ ActionLegal(r.action, legal)
        /\ NothingUsable(results, legal) => IsDefaultAction(r.action, bot_seat, legal)

BotToChoose(st) ==
    st.phase = "PLAY" /\ current_actor_index(st.leaderIndex, Len(st.s)) \in BOT_SEATS

\* C29: at every turn of a bot seat in PLAY and for everything the workers
\* can give back, choose_action_with_rollouts_parallel returns (it does not
\* raise) an action that is legal in the state: REVEAL only when a reveal
\* choice is expected, PLAY only with a card id of the legal set; and on a
\* worker failure, an empty tally, a top vote of the wrong kind or one that
\* matches no legal card it returns reveal=false when a reveal choice is
\* expected and the first legal card otherwise.
C29_ChooserAlwaysLegal ==
    (pc = "bots" /\ BotToChoose(state)) =>
        \A results \in WorkerResults(state, current_actor_index(state.leaderIndex, Len(state.s))) :
            ChooserSound(state, current_actor_index(state.leaderIndex, Len(state.s)), results)


\* k_policy.compute_k with settings.k_override left at None
compute_k(catch_number) ==
    IF catch_number <= 4 THEN 3 ELSE Max2(1, 9 - catch_number)

CardIds(cards) == [i \in 1..Len(cards) |-> to_card_id(cards[i])]

\* completed catches of team 1, then of team 2, then the catch in progress
PlayedCards(st) == Flatten(st.team1Catches) \o Flatten(st.team2Catches) \o st.s

Snapshot(st, bot_seat, concealed_id) ==
    [botSeat |-> bot_seat,
     finalBid |-> st.finalBid,
     bidderSeat |-> st.finalBid - 1,
     leaderIndex |-> st.leaderIndex,
     catchNumber |-> st.catchNumber,
     k |-> compute_k(st.catchNumber),
     trumpReveal |-> st.trumpReveal,
     knownTrumpSuit |-> IF st.trumpReveal THEN st.trumpSuit ELSE None,
     chose |-> st.chose,
     currentSuit |-> st.currentSuit,
     trumpPlayed |-> st.trumpPlayed,
     trumpIndice |-> st.trumpIndice,
     sCardIds |-> CardIds(st.s),
     botHandCardIds |-> CardIds(st.players_cards[bot_seat]),
     handSizes |-> [i \in 0..3 |-> Len(st.players_cards[i])],
     playedCardIds |-> CardIds(PlayedCards(st)),
     concealedTrumpCardId |-> concealed_id,
     suitMatrix |-> st.suit_matrix]

\* a snapshot that carries the concealed card for every deciding seat
_build_snapshot_ForAnySeat(st, bot_seat) ==
    Snapshot(st, bot_seat,
             IF ~IsNone(st.player_trump) THEN Some(to_card_id(Val(st.player_trump))) ELSE None)

_build_snapshot(st, bot_seat) ==
    Snapshot(st, bot_seat,
             IF ~IsNone(st.player_trump) /\ (bot_seat = st.finalBid - 1 \/ st.trumpReveal)
             THEN Some(to_card_id(Val(st.player_trump)))
             ELSE None)

\* st with another card concealed as the trump
WithConcealed(st, card) ==
    [st EXCEPT !.player_trump = Some(card), !.trumpSuit = Some(card.suit)]

SnapshotDiscloses(st, bot_seat) ==
    LET snap == _build_snapshot(st, bot_seat)
        entitled == ~IsNone(st.player_trump) /\ (bot_seat = st.finalBid - 1 \/ st.trumpReveal)
    IN  /\ ~IsNone(snap.concealedTrumpCardId) <=> entitled
        /\ entitled => snap.concealedTrumpCardId = Some(to_card_id(Val(st.player_trump)))
        /\ ~IsNone(snap.knownTrumpSuit) => st.trumpReveal /\ snap.knownTrumpSuit = st.trumpSuit
        /\ (~IsNone(st.player_trump) /\ ~st.trumpReveal /\ bot_seat # st.finalBid - 1) =>
               \A i \in 1..32 : _build_snapshot(WithConcealed(st, packOf28[i]), bot_seat) = snap

\* C30: at every turn of a bot seat in PLAY the snapshot built for it holds
\* the concealed trump card's id exactly when a concealed trump card exists
\* and the seat is the bidder or the trump is revealed, holds a trump suit
\* only when the trump is revealed, and for a non-bidder before the reveal
\* is the same whichever card of the pack is the concealed one.
C30_SnapshotHidesTrump ==
    (pc = "bots" /\ BotToChoose(state)) =>
        SnapshotDiscloses(state, current_actor_index(state.leaderIndex, Len(state.s)))

C30_Witness ==
    /\ pc = "bots" /\ BotToChoose(state)
    /\ ~IsNone(state.player_trump) /\ ~state.trumpReveal
    /\ current_actor_index(state.leaderIndex, Len(state.s)) # state.finalBid - 1
    /\ IsNone(_build_snapshot(state, current_actor_index(state.leaderIndex, Len(state.s))).concealedTrumpCardId)
    /\ state.catchNumber >= 2


(***************************************************************************)
(* the bid planner applied to hands drawn from the pack                    *)
(***************************************************************************)
\* the most cards a hand given to build_canonical_key_and_mapping holds
MaxHand == 5

\* the orders in which the 4 cards of a hand are handed to the planner
HandOrders == {<<1, 2, 3, 4>>, <<4, 3, 2, 1>>, <<2, 4, 1, 3>>}

\* the card ids of the pack positions drawn, in the order given
DrawnIds(drawn) == [i \in 1..Len(drawn) |-> to_card_id(packOf28[drawn[i]])]

Reordered(ids, order) == [i \in 1..Len(order) |-> ids[order[i]]]

PlanInit ==
    /\ games = {}
    /\ state = [drawn |-> <<>>, plan |-> <<>>]
    /\ pc = "closed"
    /\ frames = <<>>
    /\ deviations = 0
    /\ settings = [max_concurrent_bot_thinking |-> max_concurrent_bot_thinking]
    /\ bot_sem = settings.max_concurrent_bot_thinking
    /\ bot_loops = [c \in Conns |-> Idle]

\* one more card of the pack joins the hand (cards are drawn in pack order:
\* the order the planner sees is chosen in PlanHand)
DrawCard(i) ==
    /\ state.plan = <<>>
    /\ Len(state.drawn) < MaxHand
    /\ (IF state.drawn = <<>> THEN 0 ELSE state.drawn[Len(state.drawn)]) < i
    /\ state' = [state EXCEPT !.drawn = Append(@, i)]
    /\ UNCHANGED <<games, pc, frames, deviations, settings, bot_sem, bot_loops>>

\* plan_bid_and_trump_from_first4 is called with the 4 cards of the hand
PlanHand(order) ==
    /\ state.plan = <<>>
    /\ Len(state.drawn) = 4
    /\ state' = [state EXCEPT !.plan = <<[first4_card_ids |-> Reordered(DrawnIds(state.drawn), order),
                                          result |-> plan_bid_and_trump_from_first4(Reordered(DrawnIds(state.drawn), order))]>>]
    /\ UNCHANGED <<games, pc, frames, deviations, settings, bot_sem, bot_loops>>

PlanNext ==
    \/ \E i \in 1..32 : DrawCard(i)
    \/ \E order \in HandOrders : PlanHand(order)

PlanSpec == PlanInit /\ [][PlanNext]_vars

\* the canonical key of the cards drawn
DrawnKey == build_canonical_key_and_mapping(DrawnIds(state.drawn)).canonical_groups

JacksOutsideFirst(groups) ==
    Cardinality({<<k, i>> \in (2..Len(groups)) \X (1..MaxHand) : i <= Len(groups[k]) /\ groups[k][i] = "J"})

\* the 0-based index of the trump rank for a first group, by its size
TrumpIndexRule(first) ==
    IF Len(first) = 1 THEN 0
    ELSE IF Len(first) = 2 THEN (IF first[1] = "J" THEN 1 ELSE 0)
    ELSE IF Len(first) = 3
         THEN (IF "J" \in SeqToSet(first) /\ "9" \in SeqToSet(first) THEN 2 ELSE 1)
    ELSE Len(first) - 1

PredictionRule(groups) ==
    LET p == predict_bid_and_trump_index(groups)
    IN  /\ p.bid = _base_bid_from_first_group(groups[1])
                   + (IF Len(groups[1]) >= 2 THEN JacksOutsideFirst(groups) ELSE 0)
        /\ p.trump_index = TrumpIndexRule(groups[1])

\* C31: for the canonical key of every hand of 1 to 5 cards of the pack,
\* predict_bid_and_trump_index returns the base bid of the first group plus
\* 1 for every Jack of the other groups only when the first group has at
\* least 2 ranks, and as trump index 0 for a first group of size 1; for size
\* 2, 1 if its first rank is Jack, else 0; for size 3, 2 if it holds Jack
\* and Nine, else 1; for size 4 or more its last index.
C31_PredictBidAndTrumpIndex ==
    state.drawn # <<>> => PredictionRule(DrawnKey)

C31_Witness ==
    /\ Len(state.drawn) = 5
    /\ Len(DrawnKey[1]) = 3
    /\ JacksOutsideFirst(DrawnKey) = 2
    /\ predict_bid_and_trump_index(DrawnKey) = [bid |-> 18, trump_index |-> 2]


\* the number of cards of the suit among the card ids
SuitCount(ids, suit) == Cardinality({i \in 1..Len(ids) : ids[i][1] = suit})

\* the steps of the planner that can raise do not: the chosen rank is in the
\* flattened key and the index is within the flattened card ids
PlanRaisesNothing(first4_card_ids) ==
    LET canon == build_canonical_key_and_mapping(first4_card_ids)
        p == predict_bid_and_trump_index(canon.canonical_groups)
    IN  /\ canon.canonical_groups # <<>>
        /\ \A k \in 1..Len(canon.canonical_groups) : canon.canonical_groups[k] # <<>>
        /\ _predict_trump_rank(canon.canonical_groups) \in SeqToSet(Flatten(canon.canonical_groups))
        /\ p.trump_index >= 0 /\ p.trump_index < Len(canon.flat_card_ids)

PlanSound(first4_card_ids, result) ==
    LET first == build_canonical_key_and_mapping(first4_card_ids).canonical_cardid_groups[1]
    IN  /\ PlanRaisesNothing(first4_card_ids)
        /\ result.bid \in 14..17
        /\ result.trump_card_id \in SeqToSet(first4_card_ids)
        /\ result.trump_card_id \in SeqToSet(first)
        /\ SeqToSet(first) \subseteq SeqToSet(first4_card_ids)
        /\ \A i \in 1..Len(first) : first[i][1] = first[1][1]
        /\ \A k \in 1..4 : SuitCount(first4_card_ids, SUITS[k]) <= Len(first)
        /\ SuitCount(first4_card_ids, first[1][1]) = Len(first)

\* C36: for every hand of 4 distinct cards of the pack, in each of the
\* orders tried, plan_bid_and_trump_from_first4 returns without raising, its
\* bid lies in 14..17 and its trump card id is one of the 4 cards and lies
\* in the first canonical group, which holds all the hand's cards of one
\* suit and is as long as the hand's longest suit.
C36_PlanFromFirst4 ==
    state.plan # <<>> => PlanSound(state.plan[1].first4_card_ids, state.plan[1].result)

C36_Witness ==
    /\ state.plan # <<>>
    /\ state.plan[1].result.bid = 17
    /\ state.plan[1].first4_card_ids[1][2] # "Jack"
    /\ state.plan[1].result.trump_card_id = state.plan[1].first4_card_ids[1]


\* the moves of the phase the game may make
PhaseEdges ==
    {<<"BIDDING_R1", "TRUMP_SELECT_R1">>, <<"TRUMP_SELECT_R1", "MANUAL_DEAL_REST">>,
     <<"MANUAL_DEAL_REST", "BIDDING_R2">>, <<"BIDDING_R2", "PLAY">>,
     <<"BIDDING_R2", "TRUMP_SELECT_R2">>, <<"TRUMP_SELECT_R2", "PLAY">>,
     <<"PLAY", "GAME_OVER">>, <<"BIDDING_R1", "BIDDING_R1">>}

\* r leaves the phase of st as it was or moves it along one edge
OnEdge(st, r) == r.st.phase = st.phase \/ <<st.phase, r.st.phase>> \in PhaseEdges

\* what one turn of the bot loop in the bidding and trump phases applies to
\* st, <<>> when the loop returns
BotBiddingTurn(st) ==
    IF st.phase = "BIDDING_R1" /\ turn_index(st) \in BOT_SEATS
    THEN <<_apply_r1_bid(st, turn_index(st), BotR1BidValue(st, turn_index(st)))>>
    ELSE IF st.phase = "BIDDING_R2" /\ turn_index(st) \in BOT_SEATS
    THEN <<_apply_r2_bid(st, turn_index(st), BotR2BidValue(st, turn_index(st)))>>
    ELSE IF st.phase = "TRUMP_SELECT_R1" /\ turn_index(st) \in BOT_SEATS
    THEN <<_apply_select_trump_card(st, turn_index(st), BotR1TrumpCardId(st, turn_index(st)))>>
    ELSE IF st.phase = "TRUMP_SELECT_R2" /\ turn_index(st) \in BOT_SEATS /\ st.players_cards[turn_index(st)] # <<>>
    THEN <<_apply_select_trump_card(st, turn_index(st), to_card_id(st.players_cards[turn_index(st)][1]))>>
    ELSE <<>>

\* every turn of the bot loop started in st moves the phase along one edge
RECURSIVE BotTurnsOnEdges(_)
BotTurnsOnEdges(st) ==
    \A i \in 1..Len(BotBiddingTurn(st)) :
        BotBiddingTurn(st)[i].ok =>
            OnEdge(st, BotBiddingTurn(st)[i]) /\ BotTurnsOnEdges(BotBiddingTurn(st)[i].st)

\* what the seat to act can have applied to st by one message
SeatTurns(st) ==
    IF st.phase = "BIDDING_R1"
    THEN {_apply_r1_bid(st, turn_index(st), v) : v \in BidValues}
    ELSE IF st.phase = "BIDDING_R2"
    THEN {_apply_r2_bid(st, turn_index(st), v) : v \in BidValues}
    ELSE IF st.phase \in {"TRUMP_SELECT_R1", "TRUMP_SELECT_R2"}
    THEN {_apply_select_trump_card(st, turn_index(st), to_card_id(st.players_cards[turn_index(st)][i])) : i \in 1..Len(st.players_cards[turn_index(st)])}
    ELSE IF st.phase = "MANUAL_DEAL_REST"
    THEN {Ok(DealRest(st, DefaultRestDeal(st)))}
    ELSE IF st.phase = "PLAY"
    THEN {BotApplied(apply_play_card(st, current_actor_index(st.leaderIndex, Len(st.s)), compute_play_legal_actions(st).cardIds[i])) : i \in 1..Len(compute_play_legal_actions(st).cardIds)}
         \cup {BotApplied(apply_reveal_choice(st, current_actor_index(st.leaderIndex, Len(st.s)), b)) : b \in BOOLEAN}
    ELSE {}

TurnsOnEdges(st) ==
    \A r \in SeatTurns(st) : r.ok => OnEdge(st, r) /\ BotTurnsOnEdges(r.st)

\* no message changes the game once it is over
GameOverAbsorbs(st) ==
    /\ GET_STATE(st).st = st
    /\ UnknownType(st).st = st
    /\ \A seat \in Seats : \A v \in BidValues : SUBMIT_BID(st, seat, v).st = st
    /\ \A seat \in Seats : \A i \in 1..32 : SELECT_TRUMP_CARD(st, seat, to_card_id(packOf28[i])).st = st
    /\ \A seat \in Seats : \A i \in 1..32 : PLAY_CARD(st, seat, to_card_id(packOf28[i])).st = st
    /\ \A seat \in Seats : \A b \in BOOLEAN : CHOOSE_REVEAL_TRUMP(st, seat, b).st = st
    /\ \A rest_hands \in RestDealInputs(st) : SUBMIT_REST_DEAL(st, rest_hands).st = st
    /\ SeatTurns(st) = {}
    /\ BotBiddingTurn(st) = <<>>

\* C32: in every reachable state, every application of a bid, a trump
\* selection, the rest deal, a reveal choice or a card play (with the catch
\* resolved), by a message of the seat to act or by a turn of the bot loop
\* that follows it, leaves the phase or moves it along one of the listed
\* edges; and in GAME_OVER no message of any seat changes any field of the
\* game.
C32_PhaseEdges ==
    /\ TurnsOnEdges(state)
    /\ BotTurnsOnEdges(state)
    /\ state.phase = "GAME_OVER" => GameOverAbsorbs(state)

C32_Witness ==
    /\ pc = "recv" /\ state.phase = "GAME_OVER"
    /\ IsErrorReply(PLAY_CARD(state, 1, to_card_id(packOf28[1])).frames)
    /\ PLAY_CARD(state, 1, to_card_id(packOf28[1])).st = state


\* how many cards of the hand have the identity of card
CopiesIn(hand, card) == Cardinality({i \in 1..Len(hand) : identity(hand[i]) = identity(card)})

\* a reveal choice of the seat is refused unless a reveal choice is what the
\* seat to act is expected to make
RevealOnlyWhenExpected(st) ==
    \A seat \in Seats : \A reveal \in BOOLEAN :
        compute_play_legal_actions(st).type # "REVEAL_CHOICE" =>
            /\ ~apply_reveal_choice(st, seat, reveal).ok
            /\ apply_reveal_choice(st, seat, reveal).st = st

\* the concealed trump card is in no hand before the reveal and at most once
\* in a hand after it
ConcealedAddedOnce(st) ==
    ~IsNone(st.player_trump) =>
        \A seat \in Seats :
            CopiesIn(st.players_cards[seat], Val(st.player_trump)) <= (IF st.trumpReveal /\ seat = st.finalBid - 1 THEN 1 ELSE 0)

\* C33: in every reachable PLAY state a reveal choice is applied only when a
\* reveal choice is the action expected from the seat to act, so no trick
\* leader and no seat able to follow suit reveals the trump, and the
\* concealed trump card is in the bidder's hand at most once.
C33_RevealOnlyWhenExpected ==
    state.phase = "PLAY" => RevealOnlyWhenExpected(state) /\ ConcealedAddedOnce(state)


\* the seats marked void in a suit hold no card of it
VoidCellsSound(st) ==
    \A k \in 1..4 : \A seat \in Seats :
        Val(st.suit_matrix)[SUIT_MATRIX_INDEX(SUITS[k])][seat] = 0 =>
            \A i \in 1..Len(st.players_cards[seat]) : st.players_cards[seat][i].suit # SUITS[k]

\* C34: in every reachable PLAY state a seat whose cell of the suit-void
\* matrix is 0 for a suit holds no card of that suit in its hand, the
\* bidder's hand after the reveal has added the concealed trump card
\* included.
C34_VoidMatrixSound ==
    (state.phase = "PLAY" /\ ~IsNone(state.suit_matrix)) => VoidCellsSound(state)


\* the point values of the rank-to-point table summed over the cards
TablePoints(cards) == SumSeq([i \in 1..Len(cards) |-> points_and_order(cards[i].rank).points])

\* C35: in every reachable PLAY or GAME_OVER state each team's points are
\* the point values of the cards in its pile of catches, the two totals
\* together are at most 28, and in GAME_OVER they are exactly 28 and the
\* four hands are empty.
C35_PointsMatchPiles ==
    state.phase \in {"PLAY", "GAME_OVER"} =>
        /\ state.team1Points = TablePoints(Flatten(state.team1Catches))
        /\ state.team2Points = TablePoints(Flatten(state.team2Catches))
        /\ state.team1Points + state.team2Points <= 28
        /\ state.phase = "GAME_OVER" =>
               /\ state.team1Points + state.team2Points = 28
               /\ \A seat \in Seats : state.players_cards[seat] = <<>>

C35_Witness ==
    /\ state.phase = "GAME_OVER"
    /\ state.team1Points > 0 /\ state.team2Points > 0
    /\ state.team1Points + state.team2Points = 28
    /\ Len(state.team1Catches) + Len(state.team2Catches) = 8


(***************************************************************************)
(* Two connections attached to one game in PLAY.  A handler runs from one  *)
(* await to the next without interruption; it is suspended while it waits  *)
(* for a bot permit and while the workers of its decision run.             *)
(***************************************************************************)
DuoConns == {1, 2}

\* the bid a human seat sends in the opening: a pass where a pass is taken,
\* else the lowest value accepted
OpeningBidR1(st) == MinOf({v \in 0..28 : _apply_r1_bid(st, turn_index(st), v).ok})

\* the game of a scenario brought to PLAY by the humans' messages: lowest
\* bids, the first card in hand as trump, the pile dealt in order, passes in
\* round 2; the bots act in between
RECURSIVE OpeningToPlay(_)
OpeningToPlay(st) ==
    IF st.phase = "BIDDING_R1"
    THEN OpeningToPlay(Adv(_apply_r1_bid(st, turn_index(st), OpeningBidR1(st))).st)
    ELSE IF st.phase \in TrumpSelectPhases
    THEN OpeningToPlay(Adv(_apply_select_trump_card(st, turn_index(st), to_card_id(st.players_cards[turn_index(st)][1]))).st)
    ELSE IF st.phase = "MANUAL_DEAL_REST"
    THEN OpeningToPlay(Adv(Ok(DealRest(st, DefaultRestDeal(st)))).st)
    ELSE IF st.phase = "BIDDING_R2"
    THEN OpeningToPlay(Adv(_apply_r2_bid(st, turn_index(st), 0)).st)
    ELSE st

\* the scenarios played with two connections
DuoScenarios == {<<0, 1>>, <<1, 1>>}

\* where the handler of a connection stands: at "closed" (not accepted yet),
\* "recv" (awaiting a message), "loop" (at the top of the while loop of
\* advance_bots_until_human), "acquire" (waiting for a permit), "deciding"
\* (awaiting the workers, holding a permit) or "gone" (ended by an exception);
\* actor and action are the loop's local values, caught tells whether the
\* loop was called inside try ... except ValueError, dumped whether the
\* gathering raised with a crash dump path
DuoHandler(at, actor, action, caught, dumped) ==
    [at |-> at, actor |-> actor, action |-> action, caught |-> caught, dumped |-> dumped]

\* a handler at a place where the loop's local values are not live
DuoAt(at, caught) == DuoHandler(at, 0, PlayAction(0, <<>>), caught, FALSE)

\* the catches played with two connections
DuoMaxCatch == 2

DuoInit ==
    \E sc \in DuoScenarios :
        /\ state = OpeningToPlay(Adv(Ok(create_game_manual_first4(sc[1], Deals[sc[2]]))).st)
        /\ games = {GameId}
        /\ pc = "closed"
        /\ frames = <<>>
        /\ deviations = 0
        /\ settings \in {[max_concurrent_bot_thinking |-> n] : n \in {max_concurrent_bot_thinking, 2}}
        /\ bot_sem = settings.max_concurrent_bot_thinking
        /\ bot_loops = [c \in DuoConns |-> DuoAt("closed", FALSE)]

\* ws_game up to the call of the bot loop before the first state is sent
DuoConnect(c) ==
    /\ bot_loops[c].at = "closed"
    /\ bot_loops' = [bot_loops EXCEPT ![c].at = "loop", ![c].caught = FALSE]
    /\ UNCHANGED <<games, state, pc, frames, deviations, settings, bot_sem>>

\* entry of "async with bot_sem" with a permit at hand, and the chooser up
\* to its await of the workers: the action it will return is fixed by the
\* legal actions computed now and by what the workers will give
DuoDecide(c, bot_seat) ==
    \E results \in WorkerResults(state, bot_seat) :
        /\ Budget(choose_action_with_rollouts_parallel(state, bot_seat, results) # DefaultAction(state, bot_seat, compute_play_legal_actions(state)))
        /\ IF choose_action_with_rollouts_parallel(state, bot_seat, results).ok
           THEN /\ bot_sem' = bot_sem - 1
                /\ bot_loops' = [bot_loops EXCEPT ![c] =
                       DuoHandler("deciding", bot_seat,
                                  choose_action_with_rollouts_parallel(state, bot_seat, results).action,
                                  bot_loops[c].caught, results.dump)]
           ELSE /\ bot_sem' = bot_sem
                /\ bot_loops' = [bot_loops EXCEPT ![c] = DuoAt("gone", FALSE)]
        /\ UNCHANGED <<games, state, pc, frames, settings>>

\* top of the while loop: return when the game is not in PLAY or a human is
\* to act, else take a permit or wait for one
DuoLoopTop(c) ==
    /\ bot_loops[c].at = "loop"
    /\ state.catchNumber <= DuoMaxCatch
    /\ IF state.phase # "PLAY" \/ current_actor_index(state.leaderIndex, Len(state.s)) \notin BOT_SEATS
       THEN /\ bot_loops' = [bot_loops EXCEPT ![c] = DuoAt("recv", FALSE)]
            /\ UNCHANGED <<games, state, pc, frames, deviations, settings, bot_sem>>
       ELSE IF bot_sem > 0
       THEN DuoDecide(c, current_actor_index(state.leaderIndex, Len(state.s)))
       ELSE /\ bot_loops' = [bot_loops EXCEPT ![c].at = "acquire", ![c].actor = current_actor_index(state.leaderIndex, Len(state.s))]
            /\ UNCHANGED <<games, state, pc, frames, deviations, settings, bot_sem>>

\* a permit has come back: the waiting loop goes on with the actor it read
\* before it waited
DuoAcquire(c) ==
    /\ bot_loops[c].at = "acquire"
    /\ state.catchNumber <= DuoMaxCatch
    /\ bot_sem > 0
    /\ DuoDecide(c, bot_loops[c].actor)

\* the outcome of applying the returned action to st
DuoApplied(st, action) ==
    BotApplied(IF action.type = "REVEAL"
               THEN apply_reveal_choice(st, action.seatIndex, action.reveal)
               ELSE apply_play_card(st, action.seatIndex, action.cardId))

\* where the handler stands after the action was applied: in the loop, or
\* after an exception back at the receive (ValueError caught) or ended
DuoAfter(h, r) ==
    IF r.ok THEN DuoAt("loop", h.caught)
    ELSE IF r.exc = "ValueError" /\ h.caught THEN DuoAt("recv", FALSE)
    ELSE DuoAt("gone", FALSE)

DuoLogged(st, dumped) ==
    IF dumped THEN Log(st, <<"BOT CRASH DUMP:", "dump_path">>) ELSE st

\* the workers are done: the chooser returns, the permit goes back, the
\* action is applied to the game as it is now and the catch resolved
DuoReturn(c) ==
    /\ bot_loops[c].at = "deciding"
    /\ bot_sem' = bot_sem + 1
    /\ state' = DuoApplied(DuoLogged(state, bot_loops[c].dumped), bot_loops[c].action).st
    /\ bot_loops' = [bot_loops EXCEPT ![c] =
           DuoAfter(bot_loops[c], DuoApplied(DuoLogged(state, bot_loops[c].dumped), bot_loops[c].action))]
    /\ UNCHANGED <<games, pc, frames, deviations, settings>>

\* a message handled up to the call of the bot loop (h.pc = "bots") or to the
\* next receive
DuoHandled(c, h) ==
    /\ state.catchNumber <= DuoMaxCatch
    /\ Budget(h.dev)
    /\ state' = h.st
    /\ bot_loops' = [bot_loops EXCEPT ![c] =
           IF h.pc = "bots" THEN DuoAt("loop", TRUE) ELSE IF h.pc = "recv" THEN DuoAt("recv", FALSE) ELSE DuoAt("gone", FALSE)]
    /\ UNCHANGED <<games, pc, frames, settings, bot_sem>>

DuoPlayCard(c, seat, card_id) ==
    bot_loops[c].at = "recv" /\ DuoHandled(c, PLAY_CARD(state, seat, card_id))

DuoChooseRevealTrump(c, seat, reveal) ==
    bot_loops[c].at = "recv" /\ DuoHandled(c, CHOOSE_REVEAL_TRUMP(state, seat, reveal))

DuoNext ==
    \E c \in DuoConns :
        \/ DuoConnect(c)
        \/ DuoLoopTop(c)
        \/ DuoAcquire(c)
        \/ DuoReturn(c)
        \/ \E seat \in Seats : \E card_id \in CardIdInputs(state, seat, {"PLAY"}) : DuoPlayCard(c, seat, card_id)
        \/ \E seat \in Seats : \E reveal \in BOOLEAN : DuoChooseRevealTrump(c, seat, reveal)

DuoSpec == DuoInit /\ [][DuoNext]_vars


\* the seat an entry of the event log names as the one that acted, <<>> for
\* an entry of another kind
ActedSeat(entry) ==
    IF Len(entry) >= 2 /\ entry[2] \in {"played", "revealed trump.", "chose not to reveal trump."}
    THEN <<entry[1]>> ELSE <<>>

\* every action logged by the step is one of the seat to act before the step
LoggedByActor ==
    \A i \in (Len(state.event_log) + 1)..Len(state'.event_log) :
        ActedSeat(state'.event_log[i]) \in {<<>>, <<Pn(current_actor_index(state.leaderIndex, Len(state.s)))>>}

\* no card lies twice among the catches taken and the catch in progress
NoCardPlayedTwice(st) ==
    Cardinality({identity(PlayedCards(st)[i]) : i \in 1..Len(PlayedCards(st))}) = Len(PlayedCards(st))

\* a returned decision for a seat that is not the seat to act changes nothing
\* in the game but the log of a crash dump, and ends the loop
StaleRejected(c) ==
    (/\ bot_loops[c].at = "deciding" /\ bot_loops'[c].at # "deciding"
     /\ bot_loops[c].action.seatIndex # current_actor_index(state.leaderIndex, Len(state.s))) =>
        /\ state' = DuoLogged(state, bot_loops[c].dumped)
        /\ bot_loops'[c].at \in {"recv", "gone"}

DuoStepSound ==
    /\ \A c \in DuoConns : StaleRejected(c)
    /\ state.phase = "PLAY" => LoggedByActor
    /\ state.phase # "PLAY" => state' = state
    /\ Len(state'.s) < 4
    /\ NoCardPlayedTwice(state')

\* C37: with two connections on one game, in every step of either handler
\* the actions logged are those of the seat that was to act when the step
\* was taken, a bot decision returned for a seat that is no longer the seat
\* to act is refused and leaves the game as it was, the catch in progress
\* never holds 4 cards after a step, and no card lies twice among the cards
\* played.
C37_TwoConnections == [][DuoStepSound]_vars

C37_Witness ==
    /\ state.phase = "PLAY"
    /\ \E c \in DuoConns :
           /\ bot_loops[c].at = "deciding"
           /\ bot_loops[c].action.seatIndex # current_actor_index(state.leaderIndex, Len(state.s))
    /\ \E c \in DuoConns : bot_loops[c].at = "recv"
    /\ state.catchNumber >= 2


(***************************************************************************)
(* rollout_bot.py: the deal of one rollout of rollout_worker and the       *)
(* constrained dealer.  The lists of card ids hold no id twice and are     *)
(* shuffled before every use, so a pool is modelled by the set of its ids; *)
(* a list taken from a pool is written in pack order.                      *)
(***************************************************************************)
\* the ids of ids_set in the order of the pack, from position i on
RECURSIVE InPackOrder(_, _)
InPackOrder(ids_set, i) ==
    IF i > 32 THEN <<>>
    ELSE (IF to_card_id(packOf28[i]) \in ids_set THEN <<to_card_id(packOf28[i])>> ELSE <<>>)
         \o InPackOrder(ids_set, i + 1)

\* pools up to this size have every sample enumerated
MaxEnumPool == 6

\* samples taken of a larger pool
MaxSamples == 3

\* q rotated left by r
Rotated(q, r) == [i \in 1..Len(q) |-> q[((i - 1 + r) % Len(q)) + 1]]

\* rng.sample(allowed, need): the sets of need ids of allowed that are drawn
Samples(allowed, need) ==
    IF need <= 0 THEN {{}}
    ELSE IF Cardinality(allowed) <= MaxEnumPool
    THEN {chosen \in SUBSET allowed : Cardinality(chosen) = need}
    ELSE {{Rotated(InPackOrder(allowed, 1), r * (Cardinality(allowed) \div MaxSamples))[i] : i \in 1..need} :
              r \in 0..(MaxSamples - 1)}

\* the game played on from st: every seat plays its first legal card (its
\* last one if last), and reveals the trump or not when it has the choice
LineStep(st, reveal, last) ==
    LET legal == compute_play_legal_actions(st)
        actor == current_actor_index(st.leaderIndex, Len(st.s))
    IN  IF legal.type = "REVEAL_CHOICE" THEN apply_reveal_choice(st, actor, reveal)
        ELSE IF legal.type = "PLAY_CARD" /\ legal.cardIds # <<>>
        THEN apply_play_card(st, actor, legal.cardIds[IF last THEN Len(legal.cardIds) ELSE 1])
        ELSE RaiseRuntime(st, <<"no legal action">>)

RECURSIVE LineFrom(_, _, _)
LineFrom(st, reveal, last) ==
    IF st.phase # "PLAY" \/ ~LineStep(st, reveal, last).ok THEN <<>>
    ELSE <<st>> \o LineFrom(resolve_if_catch_complete(LineStep(st, reveal, last).st), reveal, last)

\* the games whose bot turns are decided by rollouts
RollScenarios == {<<0, 1>>, <<1, 1>>, <<0, 2>>, <<3, 2>>, <<1, 3>>, <<0, 4>>}

\* the states of the lines at which a bot seat is to act
BotTurnStates ==
    UNION {{st \in SeqToSet(LineFrom(OpeningToPlay(Adv(Ok(create_game_manual_first4(sc[1], Deals[sc[2]]))).st), reveal, last)) :
                BotToChoose(st)} :
           sc \in RollScenarios, reveal \in BOOLEAN, last \in BOOLEAN}


\* settings.rollout_deal_retries
rollout_deal_retries == 30

NoHands == [seat \in 0..3 |-> <<>>]

\* the number of ids of hand equal to card_id
CountId(hand, card_id) == Cardinality({i \in 1..Len(hand) : hand[i] = card_id})

\* the locals of a rollout and of the dealer it calls; at is the place
\* reached: "pool" (unknown pool built), "shuffled" (trump simulated),
\* "indicator" (revealed indicator fixed), "constrained" (Jack rule applied),
\* "dealing" (in the dealer's loop), "dealt" (dealer returned a deal),
\* "failed" (dealer returned None), "built" (hands complete), "raised"
Rollout(fn, at, snap, retries, pool_ids, seats_to_fill, hand_sizes, suit_matrix) ==
    [fn |-> fn, at |-> at, snap |-> snap, retries |-> retries,
     pool_ids |-> pool_ids, seats_to_fill |-> seats_to_fill,
     need_sizes |-> hand_sizes, suit_matrix |-> suit_matrix,
     sim_player_trump |-> None, hands |-> NoHands, target |-> None,
     remaining_pool |-> pool_ids, remaining_seats |-> seats_to_fill,
     dealt |-> NoHands, attempts |-> 0, fallback |-> FALSE]

\* base_known of a snapshot
BaseKnown(snap) ==
    SeqToSet(snap.botHandCardIds) \cup SeqToSet(snap.playedCardIds)
    \cup (IF ~IsNone(snap.concealedTrumpCardId) /\ snap.botSeat = snap.bidderSeat
          THEN {Val(snap.concealedTrumpCardId)} ELSE {})

\* rollout_worker at the top of a rollout
WorkerCall(snap, retries) ==
    Rollout("rollout_worker", "pool", Some(snap), Max2(0, retries),
            AllCardIds \ BaseKnown(snap), (0..3) \ {snap.botSeat}, snap.handSizes,
            IF IsNone(snap.suitMatrix) THEN Ones4x4 ELSE Val(snap.suitMatrix))

\* a call of the dealer on its own
DealerCall(pool_ids, seats_to_fill, hand_sizes, suit_matrix) ==
    Rollout("_deal_unknown_with_suit_constraints", "dealing", None, 0,
            pool_ids, seats_to_fill, hand_sizes, suit_matrix)

\* inputs of the dealer called on its own: pools of these cards, up to 2
\* cards a seat, these cells of the matrix 0 or 1
DealUniverse == {<<"Hearts", "Seven">>, <<"Hearts", "Jack">>, <<"Clubs", "Seven">>, <<"Diamonds", "Eight">>}
DealNeeds == 0..2
DealVoidCells == {<<"Hearts", 1>>, <<"Hearts", 2>>, <<"Clubs", 1>>, <<"Clubs", 3>>}

MatrixWithVoids(cells) ==
    [row \in 0..3 |-> [seat \in 0..3 |->
        IF \E cell \in cells : SUIT_MATRIX_INDEX(cell[1]) = row /\ cell[2] = seat THEN 0 ELSE 1]]

DealerCalls ==
    {DealerCall(pool_ids, {1, 2, 3}, [seat \in 0..3 |-> IF seat = 0 THEN 0 ELSE needs[seat]], MatrixWithVoids(cells)) :
         pool_ids \in SUBSET DealUniverse, needs \in [1..3 -> DealNeeds], cells \in SUBSET DealVoidCells}

RetrySettings == {0, rollout_deal_retries}

WorkerCalls ==
    {WorkerCall(_build_snapshot(st, current_actor_index(st.leaderIndex, Len(st.s))), retries) :
         st \in BotTurnStates, retries \in RetrySettings}

RollInit ==
    /\ state \in WorkerCalls \cup DealerCalls
    /\ games = {}
    /\ pc = "closed"
    /\ frames = <<>>
    /\ deviations = 0
    /\ settings = [rollout_deal_retries |-> state.retries]
    /\ bot_sem = 0
    /\ bot_loops = [c \in Conns |-> Idle]

RollStep(next) ==
    /\ state' = next
    /\ UNCHANGED <<games, pc, frames, deviations, settings, bot_sem, bot_loops>>

\* rng.randrange over the pool: its ids when the pool is small, else some of
\* them and the Jack of the led suit
DrawnFrom(pool_ids, led_suit) ==
    UNION Samples(pool_ids, 1) \cup (pool_ids \cap {<<led_suit, "Jack">>})

\* sim_player_trump: the concealed card when the snapshot carries it, else a
\* card popped from the pool; the bidder without it raises
SimulateTrump ==
    /\ state.at = "pool"
    /\ LET snap == Val(state.snap)
       IN  IF snap.trumpReveal \/ (snap.botSeat = snap.bidderSeat /\ ~IsNone(snap.concealedTrumpCardId))
           THEN RollStep([state EXCEPT !.at = "shuffled", !.sim_player_trump = snap.concealedTrumpCardId])
           ELSE IF snap.botSeat = snap.bidderSeat \/ state.pool_ids = {}
           THEN RollStep([state EXCEPT !.at = "raised"])
           ELSE \E sampled \in DrawnFrom(state.pool_ids, snap.currentSuit) :
                    RollStep([state EXCEPT !.at = "shuffled",
                                           !.pool_ids = @ \ {sampled},
                                           !.sim_player_trump = Some(sampled)])

\* the revealed indicator card, not yet played, is put into the hand of the
\* bidder when another seat decides
IndicatorFixed(snap) ==
    /\ snap.trumpReveal
    /\ snap.botSeat # snap.bidderSeat
    /\ ~IsNone(snap.concealedTrumpCardId)
    /\ Val(snap.concealedTrumpCardId) \notin SeqToSet(snap.playedCardIds)

\* an indicator put into the hand of the bidder without counting it
ForceIndicator_NeedKept ==
    /\ state.at = "shuffled"
    /\ LET snap == Val(state.snap)
           own == [state EXCEPT !.at = "indicator", !.hands[snap.botSeat] = snap.botHandCardIds]
       IN  IF IndicatorFixed(snap)
           THEN RollStep([own EXCEPT !.hands[snap.bidderSeat] = Append(@, Val(snap.concealedTrumpCardId)),
                                     !.pool_ids = @ \ {Val(snap.concealedTrumpCardId)}])
           ELSE RollStep(own)

ForceIndicator ==
    /\ state.at = "shuffled"
    /\ LET snap == Val(state.snap)
           own == [state EXCEPT !.at = "indicator", !.hands[snap.botSeat] = snap.botHandCardIds]
       IN  IF IndicatorFixed(snap)
           THEN RollStep([own EXCEPT !.hands[snap.bidderSeat] = Append(@, Val(snap.concealedTrumpCardId)),
                                     !.need_sizes[snap.bidderSeat] = Max2(0, @ - 1),
                                     !.pool_ids = @ \ {Val(snap.concealedTrumpCardId)}])
           ELSE RollStep(own)

\* the led suit is led for the first time, followed by all so far, its Jack
\* is in the pool and the deciding seat is the one to act
JackRuleApplies(snap, pool_ids) ==
    /\ Len(snap.sCardIds) >= 1
    /\ snap.currentSuit # ""
    /\ \A cid \in SeqToSet(snap.sCardIds) : cid[1] = snap.currentSuit
    /\ \A cid \in SeqToSet(snap.playedCardIds) \ SeqToSet(snap.sCardIds) : cid[1] # snap.currentSuit
    /\ <<snap.currentSuit, "Jack">> \in pool_ids
    /\ current_actor_index(snap.leaderIndex, Len(snap.sCardIds)) = snap.botSeat

\* the seats to play after the actor that need a card and are not marked
\* void in the led suit
JackCandidates(snap, need_sizes, suit_matrix) ==
    {seat \in {(snap.leaderIndex + i) % 4 : i \in (Len(snap.sCardIds) + 1)..3} :
         need_sizes[seat] > 0 /\ suit_matrix[SUIT_MATRIX_INDEX(snap.currentSuit)][seat] # 0}

ForceJack ==
    /\ state.at = "indicator"
    /\ LET snap == Val(state.snap)
       IN  IF JackRuleApplies(snap, state.pool_ids) /\ JackCandidates(snap, state.need_sizes, state.suit_matrix) # {}
           THEN \E target \in JackCandidates(snap, state.need_sizes, state.suit_matrix) :
                    RollStep([state EXCEPT !.at = "constrained",
                                           !.target = Some(target),
                                           !.hands[target] = Append(@, <<snap.currentSuit, "Jack">>),
                                           !.need_sizes[target] = Max2(0, @ - 1),
                                           !.pool_ids = @ \ {<<snap.currentSuit, "Jack">>}])
           ELSE RollStep([state EXCEPT !.at = "constrained"])

\* one more attempt of the retry loop: the dealer is called
StartAttempt ==
    /\ state.fn = "rollout_worker"
    /\ state.at \in {"constrained", "failed"}
    /\ state.attempts < state.retries
    /\ RollStep([state EXCEPT !.at = "dealing", !.attempts = @ + 1,
                              !.remaining_pool = state.pool_ids,
                              !.remaining_seats = state.seats_to_fill,
                              !.dealt = NoHands])

\* a dealer that lets every seat take every card
is_allowed_Always(cid, seat, suit_matrix) == TRUE

is_allowed(cid, seat, suit_matrix) == suit_matrix[SUIT_MATRIX_INDEX(cid[1])][seat] = 1

void_count(seat, suit_matrix) == Cardinality({row \in 0..3 : suit_matrix[row][seat] = 0})

AllowedOf(st, seat) == {cid \in st.remaining_pool : is_allowed(cid, seat, st.suit_matrix)}

\* the sort key of a seat: allowed pool size, more voids first, higher need
\* first, seat
SeatKey(st, seat) ==
    <<Cardinality(AllowedOf(st, seat)), 0 - void_count(seat, st.suit_matrix), 0 - st.need_sizes[seat], seat>>

KeyBefore(a, b) ==
    \E i \in 1..4 : a[i] < b[i] /\ \A j \in 1..(i - 1) : a[j] = b[j]

\* seat_infos[0] after the sort
MostConstrained(st) ==
    CHOOSE seat \in st.remaining_seats :
        \A other \in st.remaining_seats \ {seat} : KeyBefore(SeatKey(st, seat), SeatKey(st, other))

\* one turn of the dealer's loop: None when the most constrained seat cannot
\* be served, else a sample of its allowed cards
DealSeat ==
    /\ state.at = "dealing"
    /\ state.remaining_seats # {}
    /\ LET seat == MostConstrained(state)
       IN  IF Cardinality(AllowedOf(state, seat)) < state.need_sizes[seat]
           THEN RollStep([state EXCEPT !.at = "failed"])
           ELSE \E chosen \in Samples(AllowedOf(state, seat), state.need_sizes[seat]) :
                    RollStep([state EXCEPT !.dealt[seat] = InPackOrder(chosen, 1),
                                           !.remaining_pool = @ \ chosen,
                                           !.remaining_seats = @ \ {seat}])

\* the loop is left: the dealer returns dealt
DealReturn ==
    /\ state.at = "dealing"
    /\ state.remaining_seats = {}
    /\ RollStep([state EXCEPT !.at = "dealt"])

\* the returned deal is added to the cards set before
MergeDealt ==
    /\ state.fn = "rollout_worker"
    /\ state.at = "dealt"
    /\ RollStep([state EXCEPT !.at = "built",
                              !.hands = [seat \in 0..3 |->
                                  IF seat \in state.seats_to_fill THEN @[seat] \o state.dealt[seat] ELSE @[seat]]])

\* the orders the shuffled pool is left in
ShuffledOrders(pool_ids) ==
    IF pool_ids = {} THEN {<<>>}
    ELSE {Rotated(InPackOrder(pool_ids, 1), r) :
              r \in IF Cardinality(pool_ids) <= MaxEnumPool THEN 0..(Cardinality(pool_ids) - 1)
                    ELSE {k * (Cardinality(pool_ids) \div MaxSamples) : k \in 0..(MaxSamples - 1)}}

\* pool_idx when the slice of seat is cut
SliceStart(st, seat) == SumSeq([i \in 1..seat |-> IF (i - 1) \in st.seats_to_fill THEN st.need_sizes[i - 1] ELSE 0])

\* pool_ids[pool_idx : pool_idx + need]
SliceOf(order, start, need) ==
    IF start >= Len(order) THEN <<>>
    ELSE SubSeq(order, start + 1, IF start + need <= Len(order) THEN start + need ELSE Len(order))

\* no deal was returned in the retries allowed: the pool is cut in slices
FallbackSlices ==
    /\ state.fn = "rollout_worker"
    /\ state.at \in {"constrained", "failed"}
    /\ state.attempts >= state.retries
    /\ \E order \in ShuffledOrders(state.pool_ids) :
           RollStep([state EXCEPT !.at = "built", !.fallback = TRUE,
                                  !.hands = [seat \in 0..3 |->
                                      IF seat \in state.seats_to_fill
                                      THEN @[seat] \o SliceOf(order, SliceStart(state, seat), state.need_sizes[seat])
                                      ELSE @[seat]]])

RollNext ==
    \/ SimulateTrump
    \/ ForceIndicator
    \/ ForceJack
    \/ StartAttempt
    \/ DealSeat
    \/ DealReturn
    \/ MergeDealt
    \/ FallbackSlices

RollSpec == RollInit /\ [][RollNext]_vars


\* the deal returned serves every seat to fill with exactly its need, from
\* the pool it was called with, no id twice, no id of a suit the seat is
\* marked void in
DealSound(st) ==
    \A seat \in st.seats_to_fill :
        /\ Len(st.dealt[seat]) = st.need_sizes[seat]
        /\ SeqToSet(st.dealt[seat]) \subseteq st.pool_ids
        /\ Cardinality(SeqToSet(st.dealt[seat])) = Len(st.dealt[seat])
        /\ \A other \in st.seats_to_fill \ {seat} : SeqToSet(st.dealt[seat]) \cap SeqToSet(st.dealt[other]) = {}
        /\ \A cid \in SeqToSet(st.dealt[seat]) : st.suit_matrix[SUIT_MATRIX_INDEX(cid[1])][seat] # 0

\* the cards set into the hand of seat before the dealing
PreAssigned(st, seat) ==
    (IF IndicatorFixed(Val(st.snap)) /\ seat = Val(st.snap).bidderSeat THEN 1 ELSE 0)
    + (IF st.target = Some(seat) THEN 1 ELSE 0)

\* the cards added to the hand of seat by the dealing
Added(st, seat) ==
    IF seat \in st.seats_to_fill
    THEN SubSeq(st.hands[seat], PreAssigned(st, seat) + 1, Len(st.hands[seat]))
    ELSE <<>>

\* the hands were completed by slices: seat after seat takes its need of
\* what is left of the pool, no id twice and whatever the void marks
SlicesDealt(st) ==
    LET all == Flatten([i \in 1..4 |-> Added(st, i - 1)])
    IN  /\ SeqToSet(all) \subseteq st.pool_ids
        /\ Cardinality(SeqToSet(all)) = Len(all)
        /\ \A seat \in st.seats_to_fill :
               Len(Added(st, seat)) =
                   Max2(0, (IF SliceStart(st, seat) + st.need_sizes[seat] <= Cardinality(st.pool_ids)
                            THEN SliceStart(st, seat) + st.need_sizes[seat]
                            ELSE Cardinality(st.pool_ids)) - SliceStart(st, seat))

\* C38: whenever _deal_unknown_with_suit_constraints returns a deal, called
\* on its own or by a rollout, every seat to fill has exactly its need of
\* cards, all of the pool, no card is with two seats and none is of a suit
\* the seat is marked void in; a rollout calls the dealer at most
\* rollout_deal_retries times, and when no call returned a deal its hands
\* are completed by slices of the pool.
C38_DealerAndFallback ==
    /\ state.at = "dealt" => DealSound(state)
    /\ state.fn = "rollout_worker" =>
           /\ state.attempts <= state.retries
           /\ (state.at = "built" /\ state.fallback) => (state.attempts = state.retries /\ SlicesDealt(state))
           /\ (state.at = "built" /\ ~state.fallback) => state.attempts >= 1

C38_Witness ==
    /\ state.fn = "_deal_unknown_with_suit_constraints"
    /\ state.at = "dealt"
    /\ state.suit_matrix[SUIT_MATRIX_INDEX("Hearts")][1] = 0
    /\ state.need_sizes[1] = 2
    /\ state.need_sizes[2] = 2
    /\ \E cid \in state.pool_ids : cid[1] = "Hearts"

\* a rollout whose dealer gave no deal in 30 calls and that ended by slices
C38_FallbackReached ==
    state.fn = "rollout_worker" /\ state.at = "built" /\ state.fallback /\ state.attempts = rollout_deal_retries

\* C39: in a rollout with the trump revealed, a deciding seat that is not
\* the bidder and the indicator card not played, the hands built hold the
\* indicator card once in the hand of the bidder and in no other hand, and
\* every hand has the size the snapshot gives for its seat.
C39_IndicatorInBidderHand ==
    (state.fn = "rollout_worker" /\ state.at = "built" /\ IndicatorFixed(Val(state.snap))) =>
        /\ CountId(state.hands[Val(state.snap).bidderSeat], Val(Val(state.snap).concealedTrumpCardId)) = 1
        /\ \A seat \in (0..3) \ {Val(state.snap).bidderSeat} :
               CountId(state.hands[seat], Val(Val(state.snap).concealedTrumpCardId)) = 0
        /\ \A seat \in 0..3 : Len(state.hands[seat]) = Val(state.snap).handSizes[seat]

C39_Witness ==
    /\ state.fn = "rollout_worker"
    /\ state.at = "built"
    /\ IndicatorFixed(Val(state.snap))
    /\ Val(state.snap).handSizes[Val(state.snap).bidderSeat] >= 2
    /\ ~state.fallback

\* the pool as it is when the Jack rule is examined: the unknown ids less
\* the sampled trump and the fixed indicator
UnseenPool(st) ==
    ((AllCardIds \ BaseKnown(Val(st.snap)))
     \ (IF ~Val(st.snap).trumpReveal /\ Val(st.snap).botSeat # Val(st.snap).bidderSeat /\ ~IsNone(st.sim_player_trump)
        THEN {Val(st.sim_player_trump)} ELSE {}))
    \ (IF IndicatorFixed(Val(st.snap)) THEN {Val(Val(st.snap).concealedTrumpCardId)} ELSE {})

\* the seats that play after the deciding seat in the trick
SeatsAfterActor(snap) == {(snap.leaderIndex + i) % 4 : i \in (Len(snap.sCardIds) + 1)..3}

\* the led suit was played in an earlier trick
LedBefore(snap) ==
    /\ Len(snap.sCardIds) >= 1
    /\ \E cid \in SeqToSet(snap.playedCardIds) \ SeqToSet(snap.sCardIds) : cid[1] = snap.currentSuit

JackPlacedAfterActor(st) ==
    LET snap == Val(st.snap)
        jack_id == <<snap.currentSuit, "Jack">>
    IN  /\ SumSeq([i \in 1..4 |-> CountId(st.hands[i - 1], jack_id)]) = 1
        /\ \E seat \in SeatsAfterActor(snap) : CountId(st.hands[seat], jack_id) = 1

\* C40: in a rollout where the led suit is led for the first time, all cards
\* of the trick follow it, its Jack is in the unseen pool and the deciding
\* seat is to act, the hands built hold that Jack once, in the hand of a
\* seat that plays after the deciding seat; where the led suit was played in
\* an earlier trick the Jack is not forced and, if unseen, is in the pool
\* when the dealing starts.
C40_JackAfterActor ==
    state.fn = "rollout_worker" =>
        /\ (state.at = "built" /\ JackRuleApplies(Val(state.snap), UnseenPool(state))) => JackPlacedAfterActor(state)
        /\ (state.at = "constrained" /\ LedBefore(Val(state.snap))) =>
               /\ IsNone(state.target)
               /\ <<Val(state.snap).currentSuit, "Jack">> \in UnseenPool(state) =>
                      <<Val(state.snap).currentSuit, "Jack">> \in state.pool_ids

=============================================================================
